---- MODULE Spec2Model ----
(***************************************************************************)
(* Schema-graph builder and query engine of MVP-SQL-V2.                    *)
(*                                                                         *)
(* Python values are modelled as tagged tuples (None, bool, int, str,      *)
(* list); a Python dict is a TLA+ function from keys to values.  A Python  *)
(* str that holds data (a table name, a column name, anything built from   *)
(* them) is a sequence of one-character strings, so that concatenation,    *)
(* comparison and collisions are computed character by character; a str    *)
(* that is a literal of the program ("Table", "HAS_COLUMN", a dict key) is *)
(* a TLA+ string.                                                          *)
(***************************************************************************)
EXTENDS Integers, Sequences, FiniteSets, TLC

VARIABLES
    hin,      \* generate_fk_hash: the arguments of the call
    hout,     \* generate_fk_hash: the results (None before the call)
    G,        \* GraphLoader.G / NetworkXSchemaParser.G: the nx.DiGraph being built
    calls,    \* history: the builder calls made so far, in order
    pre,      \* history: G as it was before the last builder call
    disk,     \* the file at the output path: "missing" or its content
    loaded,   \* result of the last SchemaPipeline.load_graph
    db,       \* the SQLite source of a build
    runner,   \* which build runs: "pipeline" (SchemaPipeline.run) or "parser"
    pc,       \* position of the build
    ti,       \* index of the table being processed
    ci,       \* index of the column / foreign key being processed
    conn,     \* state of the database connection of the build
    rc,       \* the build's local row_count of the table being processed
    tf,       \* text_factory of the connection of the build
    fconn,    \* state of the parser's extra connection for a byte-mode retry
    nops,     \* number of builder calls made by the actions (bounded by MaxOps)
    XG,       \* NetworkXExplorer.G: the graph held, if any
    q,        \* the last query of the explorer and its result
    pin,      \* a function called on its own: the arguments of the call
    pout      \* a function called on its own: the outcome of the call (of
              \* convert_all: how far the batch has come)

vars == <<hin, hout, G, calls, pre, disk, loaded, db, runner, pc, ti, ci, conn, rc, tf, fconn,
          nops, XG, q, pin, pout>>

-----------------------------------------------------------------------------
(* Bounds of the model.                                                    *)

\* builder calls made on one GraphLoader
MaxOps == 1
\* tables of a source database
MaxTables == 2
\* foreign keys declared in a source database
MaxFks == 2
\* foreign keys of a graph handed to the explorer
MaxLinks == 2
\* largest hop asked of get_neighbors
MaxHop == 2
\* longest list of values handed to DataProfiler.profile
MaxValues == 4
\* most distinct words in a list handed to _get_word_frequency
MaxWords == 11
\* most rows of a column read by fetch_column_data
MaxRows == 3
\* items of a nodes.json
MaxNodes == 2
\* items of a relationships.json
MaxRels == 1
\* folders of an input root of convert_all
MaxDatasets == 3

-----------------------------------------------------------------------------
(* Python values.                                                          *)

NoneV == <<"None">>
BoolV(b) == <<"bool", b>>
IntV(n) == <<"int", n>>
StrV(s) == <<"str", s>>
ListV(l) == <<"list", l>>

IsNone(v) == v[1] = "None"

\* the dict {} ; d.update(e) and {**d, **e}: the keys of e win
EmptyDict == <<>>
DictUpdate(d, e) == e @@ d

\* dict.get(key) with default None
DictGet(d, key) == IF key \in DOMAIN d THEN d[key] ELSE NoneV

\* how a call ends: with the value it returns or the exception it raises
Return(value) == [raised |-> "none", value |-> value]
Raise(exception) == [raised |-> exception, value |-> NoneV]

\* the elements of a list
Range(s) == {s[i] : i \in DOMAIN s}

\* some enumeration of a finite set, for folds whose result does not depend on it
RECURSIVE SetToSeq(_)
SetToSeq(S) ==
    IF S = {} THEN <<>>
    ELSE LET x == CHOOSE y \in S : TRUE IN <<x>> \o SetToSeq(S \ {x})

-----------------------------------------------------------------------------
(* Strings: code points, comparison, join.                                 *)

\* ord(c) for the characters the model uses
Ord ==
    [c \in {".", "=", "_", "a", "b", "c", "e", "i", "l", "n", "q", "s", "t", "u", "|"} |->
        CASE c = "." -> 46  [] c = "=" -> 61  [] c = "_" -> 95
          [] c = "a" -> 97  [] c = "b" -> 98  [] c = "c" -> 99
          [] c = "e" -> 101 [] c = "i" -> 105 [] c = "l" -> 108
          [] c = "n" -> 110 [] c = "q" -> 113 [] c = "s" -> 115
          [] c = "t" -> 116 [] c = "u" -> 117 [] c = "|" -> 124]

\* s < t for two Python str: lexicographic on code points, a proper prefix first
RECURSIVE StrLess(_, _)
StrLess(s, t) ==
    IF t = <<>> THEN FALSE
    ELSE IF s = <<>> THEN TRUE
    ELSE IF Ord[s[1]] # Ord[t[1]] THEN Ord[s[1]] < Ord[t[1]]
    ELSE StrLess(Tail(s), Tail(t))

\* insertion of x into the sorted list l, after the elements not greater than it
RECURSIVE InsertSorted(_, _)
InsertSorted(x, l) ==
    IF l = <<>> THEN <<x>>
    ELSE IF StrLess(x, l[1]) THEN <<x>> \o l
    ELSE <<l[1]>> \o InsertSorted(x, Tail(l))

\* sorted(elements) without the sort: the list as given
Unsorted(elements) == elements

\* sorted(elements) for a list of str (stable)
RECURSIVE Sorted(_)
Sorted(elements) ==
    IF elements = <<>> THEN <<>>
    ELSE InsertSorted(elements[Len(elements)], Sorted(SubSeq(elements, 1, Len(elements) - 1)))

\* sep.join(elements)
RECURSIVE Join(_, _)
Join(sep, elements) ==
    IF elements = <<>> THEN <<>>
    ELSE IF Len(elements) = 1 THEN elements[1]
    ELSE elements[1] \o sep \o Join(sep, Tail(elements))

\* f"{table}.{column}"
Qualified(table, column) == table \o <<".">> \o column

\* hashlib.md5(s.encode()).hexdigest(): the digest is a function of the string
\* alone; it is kept symbolic, as the string it digests
Md5Hex(s) == <<"md5", s>>

\* generate_fk_hash(table1, column1, table2, column2)
GenerateFkHash(table1, column1, table2, column2) ==
    LET elements == Sorted(<<Qualified(table1, column1), Qualified(table2, column2)>>)
        unique_string == Join(<<"|">>, elements)
    IN  Md5Hex(unique_string)

-----------------------------------------------------------------------------
(* Names of the source.  SQLite accepts any quoted identifier, a dot       *)
(* included, as a table or column name.                                    *)

NameA == <<"a">>
NameB == <<"b">>
NameC == <<"c">>
NameAdotB == <<"a", ".", "b">>
NameBdotB == <<"b", ".", "b">>
NameBdotA == <<"b", ".", "a">>
SqliteSequence ==
    <<"s", "q", "l", "i", "t", "e", "_", "s", "e", "q", "u", "e", "n", "c", "e">>

HashTableNames == {NameA, NameB, NameAdotB}
HashColumnNames == {NameA, NameB, NameBdotA}

-----------------------------------------------------------------------------
(* networkx.DiGraph: node -> attribute dict, and the adjacency dict of     *)
(* dicts u -> v -> edge attribute dict (one edge at most from u to v).     *)

\* nx.DiGraph()
EmptyGraph == [node |-> EmptyDict, adj |-> EmptyDict]

HasNode(g, n) == n \in DOMAIN g.node
HasEdge(g, u, v) == u \in DOMAIN g.adj /\ v \in DOMAIN g.adj[u]
Edges(g) == {e \in (DOMAIN g.node) \X (DOMAIN g.node) : HasEdge(g, e[1], e[2])}

\* G.add_node(n, **attr): a new node gets attr, an existing one is updated
NxAddNode(g, n, attr) ==
    IF HasNode(g, n)
    THEN [g EXCEPT !.node = (n :> DictUpdate(g.node[n], attr)) @@ g.node]
    ELSE [node |-> (n :> attr) @@ g.node, adj |-> (n :> EmptyDict) @@ g.adj]

\* G.add_edge(u, v, **attr): missing endpoints are created without attributes;
\* the data of an existing edge u -> v is updated, not duplicated
NxAddEdge(g, u, v, attr) ==
    LET g1 == IF HasNode(g, u) THEN g ELSE NxAddNode(g, u, EmptyDict)
        g2 == IF HasNode(g1, v) THEN g1 ELSE NxAddNode(g1, v, EmptyDict)
        datadict == IF v \in DOMAIN g2.adj[u] THEN g2.adj[u][v] ELSE EmptyDict
    IN  [g2 EXCEPT !.adj = (u :> ((v :> DictUpdate(datadict, attr)) @@ g2.adj[u])) @@ g2.adj]

\* G.nodes[n].get("type") == kind
NodeTypeIs(g, n, kind) == DictGet(g.node[n], "type") = StrV(kind)

-----------------------------------------------------------------------------
(* GraphLoader (src/graph/graph_loader.py).                                *)

\* add_table_node(table_name, **properties)
AddTableNodeOp(g, table_name, properties) ==
    LET base_props == [type |-> StrV("Table"),
                       name |-> StrV(table_name),
                       reference_to |-> ListV(<<>>),
                       referenced_by |-> ListV(<<>>)]
        final_props == DictUpdate(base_props, properties)
    IN  NxAddNode(g, table_name, final_props)

\* the relation_type of a HAS_COLUMN edge, with the foreign-key flag ignored
RelationTypePkOnly(is_primary_key, is_foreign_key) ==
    IF is_primary_key THEN "primary_key" ELSE "normal_column"

\* the relation_type of a HAS_COLUMN edge
RelationType(is_primary_key, is_foreign_key) ==
    IF is_primary_key /\ is_foreign_key THEN "primary_and_foreign_key"
    ELSE IF is_primary_key THEN "primary_key"
    ELSE IF is_foreign_key THEN "foreign_key"
    ELSE "normal_column"

\* add_column_node(table_name, column_name, is_primary_key, is_foreign_key, **properties)
AddColumnNodeOp(g, table_name, column_name, is_primary_key, is_foreign_key, properties) ==
    LET col_node_id == Qualified(table_name, column_name)
        base_props == [type |-> StrV("Column"),
                       name |-> StrV(column_name),
                       belongs_to |-> StrV(table_name),
                       referenced_to |-> ListV(<<>>),
                       referenced_by |-> ListV(<<>>),
                       is_primary_key |-> BoolV(is_primary_key),
                       is_foreign_key |-> BoolV(is_foreign_key)]
        final_props == DictUpdate(base_props, properties)
        g1 == NxAddNode(g, col_node_id, final_props)
        relation_type == RelationType(is_primary_key, is_foreign_key)
    IN  NxAddEdge(g1, table_name, col_node_id,
                  [type |-> StrV("HAS_COLUMN"), relation_type |-> StrV(relation_type)])

\* f"{from_table}.{from_column}={to_table}.{to_column}"
ReferencePath(from_table, from_column, to_table, to_column) ==
    Qualified(from_table, from_column) \o <<"=">> \o Qualified(to_table, to_column)

\* safe_append without the has_node guard: the node is created to hold the list
UnsafeAppend(g, node_id, prop_key, value) ==
    LET node_attrs == IF HasNode(g, node_id) THEN g.node[node_id] ELSE EmptyDict
        old == IF prop_key \in DOMAIN node_attrs THEN node_attrs[prop_key][2] ELSE <<>>
    IN  NxAddNode(g, node_id, (prop_key :> ListV(Append(old, value))))

\* safe_append(node_id, prop_key, value) of add_foreign_key: nothing is
\* appended for a node the graph does not hold
SafeAppend(g, node_id, prop_key, value) ==
    IF HasNode(g, node_id)
    THEN LET node_attrs == g.node[node_id]
             old == IF prop_key \in DOMAIN node_attrs THEN node_attrs[prop_key][2] ELSE <<>>
         IN  [g EXCEPT !.node[node_id] = (prop_key :> ListV(Append(old, value))) @@ node_attrs]
    ELSE g

\* add_foreign_key(from_table, from_column, to_table, to_column)
AddForeignKeyOp(g, from_table, from_column, to_table, to_column) ==
    LET reference_path == ReferencePath(from_table, from_column, to_table, to_column)
        fk_hash == GenerateFkHash(from_table, from_column, to_table, to_column)
        g1 == NxAddEdge(g, from_table, to_table,
                        [type |-> StrV("FOREIGN_KEY"),
                         from_table |-> StrV(from_table),
                         from_column |-> StrV(from_column),
                         to_table |-> StrV(to_table),
                         to_column |-> StrV(to_column),
                         reference_path |-> StrV(reference_path),
                         fk_hash |-> StrV(fk_hash)])
        gA == SafeAppend(g1, to_table, "referenced_by", StrV(reference_path))
        gB == SafeAppend(gA, from_table, "reference_to", StrV(reference_path))
        from_col_id == Qualified(from_table, from_column)
        gC == SafeAppend(gB, from_col_id, "referenced_to", StrV(Qualified(to_table, to_column)))
        to_col_id == Qualified(to_table, to_column)
    IN  SafeAppend(gC, to_col_id, "referenced_by", StrV(Qualified(from_table, from_column)))


-----------------------------------------------------------------------------
(* pickle: the snapshot is an opcode stream, read back by a stack machine. *)

DictV(d) == <<"dict", d>>

\* the (key, value) items of a dict, without the None-valued and empty-list ones
DictItemsNonEmpty(d) ==
    SetToSeq({<<k, d[k]>> : k \in {x \in DOMAIN d : ~IsNone(d[x]) /\ d[x] # ListV(<<>>)}})

\* the (key, value) items of a dict
DictItems(d) == SetToSeq({<<k, d[k]>> : k \in DOMAIN d})

\* pickling of one value (save), and of the items of a list and of a dict
RECURSIVE PickleValue(_), PickleList(_), PicklePairs(_)
PickleValue(v) ==
    CASE v[1] = "None" -> << <<"NONE">> >>
      [] v[1] = "bool" -> IF v[2] THEN << <<"NEWTRUE">> >> ELSE << <<"NEWFALSE">> >>
      [] v[1] = "int"  -> << <<"BININT", v[2]>> >>
      [] v[1] = "str"  -> << <<"BINUNICODE", v[2]>> >>
      [] v[1] = "list" ->
            IF v[2] = <<>> THEN << <<"EMPTY_LIST">> >>
            ELSE << <<"EMPTY_LIST">>, <<"MARK">> >> \o PickleList(v[2]) \o << <<"APPENDS">> >>
      [] v[1] = "dict" ->
            IF DOMAIN v[2] = {} THEN << <<"EMPTY_DICT">> >>
            ELSE << <<"EMPTY_DICT">>, <<"MARK">> >> \o PicklePairs(DictItems(v[2]))
                     \o << <<"SETITEMS">> >>
PickleList(l) ==
    IF l = <<>> THEN <<>> ELSE PickleValue(l[1]) \o PickleList(Tail(l))
PicklePairs(items) ==
    IF items = <<>> THEN <<>>
    ELSE << <<"BINUNICODE", items[1][1]>> >> \o PickleValue(items[1][2]) \o PicklePairs(Tail(items))

\* the instance state of the DiGraph that pickle saves: its node and adjacency dicts
GraphState(g) ==
    DictV(("_node" :> DictV([n \in DOMAIN g.node |-> DictV(g.node[n])]))
       @@ ("_adj" :> DictV([u \in DOMAIN g.adj |->
                        DictV([v \in DOMAIN g.adj[u] |-> DictV(g.adj[u][v])])])))

\* pickle.dump(self.G, f): the class, a new object, its state, BUILD, STOP
PickleDump(g) ==
    << <<"GLOBAL", "networkx.classes.digraph.DiGraph">>, <<"NEWOBJ">> >>
        \o PickleValue(GraphState(g)) \o << <<"BUILD">>, <<"STOP">> >>

\* index of the topmost MARK of the stack (0 if none)
RECURSIVE TopMark(_)
TopMark(stack) ==
    IF stack = <<>> THEN 0
    ELSE IF stack[Len(stack)][1] = "mark" THEN Len(stack)
    ELSE TopMark(SubSeq(stack, 1, Len(stack) - 1))

\* dict.update from the flat key, value, key, value ... items above a MARK
RECURSIVE SetItems(_, _)
SetItems(d, items) ==
    IF Len(items) < 2 THEN d
    ELSE SetItems((items[1][2] :> items[2]) @@ d, SubSeq(items, 3, Len(items)))

\* one opcode of the unpickler on its stack
UnpickleStep(stack, tok) ==
    LET n == Len(stack)
        m == TopMark(stack)
        above == SubSeq(stack, m + 1, n)
        below == SubSeq(stack, 1, m - 2)
    IN  CASE tok[1] = "NONE" -> Append(stack, NoneV)
          [] tok[1] = "NEWTRUE" -> Append(stack, BoolV(TRUE))
          [] tok[1] = "NEWFALSE" -> Append(stack, BoolV(FALSE))
          [] tok[1] = "BININT" -> Append(stack, IntV(tok[2]))
          [] tok[1] = "BINUNICODE" -> Append(stack, StrV(tok[2]))
          [] tok[1] = "EMPTY_LIST" -> Append(stack, ListV(<<>>))
          [] tok[1] = "EMPTY_DICT" -> Append(stack, DictV(EmptyDict))
          [] tok[1] = "MARK" -> Append(stack, <<"mark">>)
          [] tok[1] = "APPENDS" -> Append(below, ListV(stack[m - 1][2] \o above))
          [] tok[1] = "SETITEMS" -> Append(below, DictV(SetItems(stack[m - 1][2], above)))
          [] tok[1] = "GLOBAL" -> Append(stack, <<"class", tok[2]>>)
          [] tok[1] = "NEWOBJ" -> Append(SubSeq(stack, 1, n - 1), <<"obj", stack[n][2], DictV(EmptyDict)>>)
          [] tok[1] = "BUILD" ->
                Append(SubSeq(stack, 1, n - 2), <<"obj", stack[n - 1][2], stack[n]>>)
          [] OTHER -> stack

\* the opcodes of a stream up to its first STOP
UpToStop(toks) ==
    LET stops == {i \in 1..Len(toks) : toks[i][1] = "STOP"}
    IN  IF stops = {} THEN toks
        ELSE SubSeq(toks, 1, (CHOOSE i \in stops : \A j \in stops : i <= j) - 1)

\* the unpickler's stack after the opcodes toks, run in order (the stack is
\* evaluated before the opcodes that follow are run)
RECURSIVE UnpickleRun(_, _)
UnpickleRun(stack, toks) ==
    IF Len(stack) < 0 \/ toks = <<>> THEN stack
    ELSE IF Len(toks) = 1 THEN UnpickleStep(stack, toks[1])
    ELSE LET half == Len(toks) \div 2
         IN  UnpickleRun(UnpickleRun(stack, SubSeq(toks, 1, half)),
                         SubSeq(toks, half + 1, Len(toks)))

\* the object on top of the stack at STOP
Unpickle(bytes) ==
    LET stack == UnpickleRun(<<>>, UpToStop(bytes)) IN stack[Len(stack)]

\* the DiGraph rebuilt from its unpickled instance state
GraphOfState(obj) ==
    LET nodes == obj[3][2]["_node"][2]
        adjs == obj[3][2]["_adj"][2]
    IN  [node |-> [n \in DOMAIN nodes |-> nodes[n][2]],
         adj |-> [u \in DOMAIN adjs |-> [v \in DOMAIN adjs[u][2] |-> adjs[u][2][v][2]]]]

\* pickle.load(f)
PickleLoad(bytes) == GraphOfState(Unpickle(bytes))

NoFile == [exists |-> FALSE, bytes |-> <<>>]
NotLoaded == [status |-> "none", G |-> EmptyGraph]

\* GraphLoader.save_graph(output_path): directories are created, the file is
\* (over)written with the pickled graph
SaveGraphOp(g) == [exists |-> TRUE, bytes |-> PickleDump(g)]

\* json: the JSON value of a Python value, and the Python value json.load
\* gives back for it
RECURSIVE JsonOf(_)
JsonOf(v) ==
    CASE v[1] = "None" -> <<"null">>
      [] v[1] = "bool" -> <<IF v[2] THEN "true" ELSE "false">>
      [] v[1] = "int" -> <<"number", v[2]>>
      [] v[1] = "str" -> <<"string", v[2]>>
      [] v[1] = "list" -> <<"array", [i \in DOMAIN v[2] |-> JsonOf(v[2][i])]>>
RECURSIVE FromJson(_)
FromJson(j) ==
    CASE j[1] = "null" -> NoneV
      [] j[1] = "true" -> BoolV(TRUE)
      [] j[1] = "false" -> BoolV(FALSE)
      [] j[1] = "number" -> IntV(j[2])
      [] j[1] = "string" -> StrV(j[2])
      [] j[1] = "array" -> ListV([i \in DOMAIN j[2] |-> FromJson(j[2][i])])
JsonObject(d) == [k \in DOMAIN d |-> JsonOf(d[k])]
FromJsonObject(o) == [k \in DOMAIN o |-> FromJson(o[k])]

\* nx.node_link_data(G): one dict per node, its attributes and "id", and one
\* per edge, its attributes and "source" and "target"
NodeLinkData(g) ==
    [nodes |-> {DictUpdate(g.node[n], [id |-> StrV(n)]) : n \in DOMAIN g.node},
     links |-> {DictUpdate(g.adj[e[1]][e[2]], [source |-> StrV(e[1]), target |-> StrV(e[2])]) :
                   e \in Edges(g)}]

\* a dict without some of its keys
Without(d, keys) == [k \in DOMAIN d \ keys |-> d[k]]

\* nx.node_link_graph(data)
RECURSIVE AddNodeDicts(_, _)
AddNodeDicts(g, nodes) ==
    IF nodes = <<>> THEN g
    ELSE AddNodeDicts(NxAddNode(g, nodes[1]["id"][2], Without(nodes[1], {"id"})), Tail(nodes))
RECURSIVE AddLinkDicts(_, _)
AddLinkDicts(g, links) ==
    IF links = <<>> THEN g
    ELSE AddLinkDicts(NxAddEdge(g, links[1]["source"][2], links[1]["target"][2],
                                Without(links[1], {"source", "target"})),
                      Tail(links))
NodeLinkGraph(data) ==
    AddLinkDicts(AddNodeDicts(EmptyGraph, SetToSeq(data.nodes)), SetToSeq(data.links))

\* json.dump(graph_data, f) on a file opened for text: the file holds the
\* UTF-8 text of the JSON document
JsonFile(data) ==
    [exists |-> TRUE,
     bytes |-> << <<"TEXT", [nodes |-> {JsonObject(d) : d \in data.nodes},
                             links |-> {JsonObject(d) : d \in data.links}]>> >>]

\* NetworkXExplorer.load_graph(graph_path): the file is opened as UTF-8 text
\* and read by json.load.  A stream written by pickle.dump starts with the
\* PROTO opcode, byte 0x80, which starts no UTF-8 character.
ExplorerLoadGraphOp(file) ==
    IF ~file.exists THEN Raise("FileNotFoundError")
    ELSE IF file.bytes = <<>> THEN Raise("JSONDecodeError")
    ELSE IF file.bytes[1][1] # "TEXT" THEN Raise("UnicodeDecodeError")
    ELSE Return(NodeLinkGraph([nodes |-> {FromJsonObject(o) : o \in file.bytes[1][2].nodes},
                               links |-> {FromJsonObject(o) : o \in file.bytes[1][2].links}]))

\* SchemaPipeline.load_graph(path)
LoadGraphOp(file) ==
    IF ~file.exists THEN [status |-> "FileNotFoundError", G |-> EmptyGraph]
    ELSE [status |-> "ok", G |-> PickleLoad(file.bytes)]


-----------------------------------------------------------------------------
(* Values of the variables a specification does not use.                   *)

NoHash == [done |-> FALSE, h |-> <<>>, swapped |-> <<>>]
NoQuery == [op |-> "none", args |-> <<>>, raised |-> "none", value |-> <<>>]

HashIdle == hin = <<>> /\ hout = NoHash
LoaderIdle ==
    /\ G = EmptyGraph /\ calls = <<>> /\ pre = EmptyGraph /\ nops = 0
    /\ disk = NoFile /\ loaded = NotLoaded
BuildIdle ==
    /\ db = <<>> /\ runner = "none" /\ pc = "idle" /\ ti = 0 /\ ci = 0
    /\ conn = "none" /\ rc = NoneV /\ tf = "none" /\ fconn = "none"
\* NetworkXExplorer() without graph_path: G is None
NoGraph == [held |-> FALSE, G |-> EmptyGraph]
ExplorerIdle == XG = NoGraph /\ q = NoQuery
NoCall == [op |-> "none"]
ProfilerIdle == pin = NoCall /\ pout = NoCall

hashVars == <<hin, hout>>
loaderVars == <<G, calls, pre, nops, disk, loaded>>
buildVars == <<db, runner, pc, ti, ci, conn, rc, tf, fconn>>
explorerVars == <<XG, q>>
profilerVars == <<pin, pout>>

-----------------------------------------------------------------------------
(* generate_fk_hash on every pair of qualified endpoints.                  *)

HashInit ==
    /\ hin \in [t1 : HashTableNames, c1 : HashColumnNames,
                t2 : HashTableNames, c2 : HashColumnNames]
    /\ hout = NoHash
    /\ LoaderIdle /\ BuildIdle /\ ExplorerIdle /\ ProfilerIdle

\* the call as written, and the call with the two endpoints exchanged
CallGenerateFkHash ==
    /\ ~hout.done
    /\ hout' = [done |-> TRUE,
                h |-> GenerateFkHash(hin.t1, hin.c1, hin.t2, hin.c2),
                swapped |-> GenerateFkHash(hin.t2, hin.c2, hin.t1, hin.c1)]
    /\ UNCHANGED <<hin, loaderVars, buildVars, explorerVars, profilerVars>>

HashNext == CallGenerateFkHash

SpecHash == HashInit /\ [][HashNext]_vars

\* C1: the foreign-key hash does not depend on the direction of the key:
\* generate_fk_hash(T1, C1, T2, C2) = generate_fk_hash(T2, C2, T1, C1).
C1_HashSymmetric == hout.done => hout.h = hout.swapped

\* C1 witness: a call whose second endpoint sorts before its first
C1_Witness ==
    /\ hout.done
    /\ StrLess(Qualified(hin.t2, hin.c2), Qualified(hin.t1, hin.c1))
    /\ hout.h = Md5Hex(Qualified(hin.t2, hin.c2) \o <<"|">> \o Qualified(hin.t1, hin.c1))

-----------------------------------------------------------------------------
(* GraphLoader driven call by call, then saved and loaded back.            *)

LoaderTables == {NameA, NameAdotB}
LoaderColumns == {NameC, NameB}

\* attribute bags of the kind SchemaPipeline.run passes
TablePropsOptions ==
    {EmptyDict, [row_count |-> NoneV, column_count |-> IntV(0), columns |-> ListV(<<>>)]}
ColumnPropsOptions ==
    {EmptyDict,
     [data_type |-> StrV("INT"), relation_type |-> StrV("primary_key"),
      numeric_range |-> NoneV, samples |-> ListV(<<>>)]}

\* the calls SchemaPipeline.run makes for two tables with one column each
StartScript ==
    << <<"add_table_node", NameA, EmptyDict>>,
       <<"add_column_node", NameA, NameC, TRUE, FALSE, EmptyDict>>,
       <<"add_table_node", NameAdotB, EmptyDict>>,
       <<"add_column_node", NameAdotB, NameC, TRUE, FALSE, EmptyDict>> >>

\* ... and for one foreign key between them
StartScriptFk == StartScript \o << <<"add_foreign_key", NameA, NameC, NameAdotB, NameC>> >>

LoaderStartScripts == {<<>>, StartScript, StartScriptFk}

\* one recorded builder call applied to a graph
ApplyCall(g, c) ==
    CASE c[1] = "add_table_node" -> AddTableNodeOp(g, c[2], c[3])
      [] c[1] = "add_column_node" -> AddColumnNodeOp(g, c[2], c[3], c[4], c[5], c[6])
      [] c[1] = "add_foreign_key" -> AddForeignKeyOp(g, c[2], c[3], c[4], c[5])

RECURSIVE ApplyCalls(_, _)
ApplyCalls(g, cs) == IF cs = <<>> THEN g ELSE ApplyCalls(ApplyCall(g, cs[1]), Tail(cs))

\* a GraphLoader just constructed, or one on which a build has made its first calls
LoaderInit ==
    /\ calls \in LoaderStartScripts
    /\ G = ApplyCalls(EmptyGraph, calls)
    /\ pre = ApplyCalls(EmptyGraph, SubSeq(calls, 1, Len(calls) - 1))
    /\ nops = 0 /\ disk = NoFile /\ loaded = NotLoaded
    /\ HashIdle /\ BuildIdle /\ ExplorerIdle /\ ProfilerIdle

\* a builder call c, made while the graph is still being built
BuilderCall(c) ==
    /\ nops < MaxOps
    /\ ~disk.exists
    /\ G' = ApplyCall(G, c)
    /\ calls' = Append(calls, c)
    /\ pre' = G
    /\ nops' = nops + 1
    /\ UNCHANGED <<disk, loaded, hashVars, buildVars, explorerVars, profilerVars>>

AddTableNode ==
    \E t \in LoaderTables, props \in TablePropsOptions :
        BuilderCall(<<"add_table_node", t, props>>)

AddColumnNode ==
    \E t \in LoaderTables, c \in LoaderColumns, pk \in BOOLEAN, fk \in BOOLEAN,
       props \in ColumnPropsOptions :
        BuilderCall(<<"add_column_node", t, c, pk, fk, props>>)

AddForeignKey ==
    \E ft \in LoaderTables, fc \in LoaderColumns, tt \in LoaderTables, tc \in LoaderColumns :
        BuilderCall(<<"add_foreign_key", ft, fc, tt, tc>>)

\* save_graph at the end of the build; the graph is not changed afterwards
SaveGraph ==
    /\ ~disk.exists
    /\ disk' = SaveGraphOp(G)
    /\ UNCHANGED <<G, calls, pre, nops, loaded, hashVars, buildVars, explorerVars, profilerVars>>

LoadGraph ==
    /\ loaded.status = "none"
    /\ loaded' = LoadGraphOp(disk)
    /\ UNCHANGED <<G, calls, pre, nops, disk, hashVars, buildVars, explorerVars, profilerVars>>

LoaderNext == AddTableNode \/ AddColumnNode \/ AddForeignKey \/ SaveGraph \/ LoadGraph

SpecLoader == LoaderInit /\ [][LoaderNext]_vars


\* the last builder call, when one was made
CallMade(op) == calls # <<>> /\ calls[Len(calls)][1] = op
LastCall == calls[Len(calls)]

\* the list a node holds under a key (empty when the node or the key is absent)
ListOf(g, n, k) == IF HasNode(g, n) /\ k \in DOMAIN g.node[n] THEN g.node[n][k][2] ELSE <<>>

\* the four lists of add_foreign_key call c, each with the entry meant for it
FkTargets(c) ==
    LET path == StrV(ReferencePath(c[2], c[3], c[4], c[5]))
    IN  { <<c[4], "referenced_by", path>>,
          <<c[2], "reference_to", path>>,
          <<Qualified(c[2], c[3]), "referenced_to", StrV(Qualified(c[4], c[5]))>>,
          <<Qualified(c[4], c[5]), "referenced_by", StrV(Qualified(c[2], c[3]))>> }

FkEdgesBetween(g, u, v) ==
    IF HasEdge(g, u, v) /\ DictGet(g.adj[u][v], "type") = StrV("FOREIGN_KEY")
    THEN {g.adj[u][v]} ELSE {}

\* the graph holds a FOREIGN_KEY edge with the data of add_foreign_key call c
FkEdgeKept(g, c) ==
    \E e \in FkEdgesBetween(g, c[2], c[4]) :
        /\ e["from_column"] = StrV(c[3])
        /\ e["to_column"] = StrV(c[5])
        /\ e["reference_path"] = StrV(ReferencePath(c[2], c[3], c[4], c[5]))
        /\ e["fk_hash"] = StrV(GenerateFkHash(c[2], c[3], c[4], c[5]))

\* C3 as stated: two different foreign keys between the same two tables are
\* stored as two independent FOREIGN_KEY edges, each keeping its own
\* from_column, to_column, reference_path and fk_hash.
C3_IndependentEdges ==
    (/\ Len(calls) >= 2
     /\ calls[Len(calls)][1] = "add_foreign_key"
     /\ calls[Len(calls) - 1][1] = "add_foreign_key"
     /\ calls[Len(calls)][2] = calls[Len(calls) - 1][2]
     /\ calls[Len(calls)][4] = calls[Len(calls) - 1][4]
     /\ calls[Len(calls)] # calls[Len(calls) - 1])
    => /\ FkEdgeKept(G, calls[Len(calls) - 1])
       /\ FkEdgeKept(G, calls[Len(calls)])

\* the four-way classification of a column by its two flags
FlagClass(pk, fk) ==
    CASE pk /\ fk -> "primary_and_foreign_key"
      [] pk /\ ~fk -> "primary_key"
      [] ~pk /\ fk -> "foreign_key"
      [] ~pk /\ ~fk -> "normal_column"

\* C6: add_column_node creates exactly one HAS_COLUMN edge, from the table
\* node to the column node "<table>.<column>", whose relation_type is given by
\* the two flags alone; every other edge is left as it was.
C6_HasColumnEdge ==
    CallMade("add_column_node") =>
        LET c == LastCall
            id == Qualified(c[2], c[3])
        IN  /\ HasEdge(G, c[2], id)
            /\ G.adj[c[2]][id]["type"] = StrV("HAS_COLUMN")
            /\ G.adj[c[2]][id]["relation_type"] = StrV(FlagClass(c[4], c[5]))
            /\ \A e \in Edges(G) \cup Edges(pre) :
                  e # <<c[2], id>> =>
                      /\ HasEdge(G, e[1], e[2]) /\ HasEdge(pre, e[1], e[2])
                      /\ G.adj[e[1]][e[2]] = pre.adj[e[1]][e[2]]

\* C6 witness: a column flagged primary and foreign key, added with an
\* attribute bag that itself names a relation_type
C6_Witness ==
    /\ CallMade("add_column_node")
    /\ LastCall[4] /\ LastCall[5]
    /\ "relation_type" \in DOMAIN LastCall[6]
    /\ G.adj[LastCall[2]][Qualified(LastCall[2], LastCall[3])]["relation_type"]
          = StrV("primary_and_foreign_key")

\* the table or column a call creates, and the node identifier it is given
IsNodeCall(c) == c[1] \in {"add_table_node", "add_column_node"}
EntityOf(c) == IF c[1] = "add_table_node" THEN <<"Table", c[2]>> ELSE <<"Column", c[2], c[3]>>
NodeIdOf(c) == IF c[1] = "add_table_node" THEN c[2] ELSE Qualified(c[2], c[3])

\* C7 as stated: node identity is unique: no table's identifier equals a
\* column's identifier, and two different (table, column) pairs never share one.
C7_UniqueNodeIds ==
    \A i, j \in 1..Len(calls) :
        (IsNodeCall(calls[i]) /\ IsNodeCall(calls[j]) /\ EntityOf(calls[i]) # EntityOf(calls[j]))
            => NodeIdOf(calls[i]) # NodeIdOf(calls[j])

\* C8: a snapshot written by save_graph and read by load_graph gives back the
\* graph that was saved: same nodes, same edges, same attribute values,
\* None and empty lists included.
C8_RoundTrip == loaded.status = "ok" => loaded.G = G

\* C8 witness: a loaded graph with a foreign-key edge, a None-valued attribute
\* and an empty reference list
C8_Witness ==
    /\ loaded.status = "ok"
    /\ \E e \in Edges(loaded.G) : FkEdgesBetween(loaded.G, e[1], e[2]) # {}
    /\ \E n \in DOMAIN loaded.G.node :
          /\ "row_count" \in DOMAIN loaded.G.node[n] /\ loaded.G.node[n]["row_count"] = NoneV
          /\ loaded.G.node[n]["referenced_by"] = ListV(<<>>)


-----------------------------------------------------------------------------
(* DataProfiler (src/graph/data_profiler.py): statistics of one column.    *)
(* Column values are Python values as sqlite3 hands them over: None, int,  *)
(* str (a sequence of characters) and bytes.                               *)

BytesV(b) == <<"bytes", b>>
FloatV(num, den) == <<"float", num, den>>

IsStr(v) == v[1] = "str"
IsInt(v) == v[1] = "int"
IsBytes(v) == v[1] = "bytes"

\* the values len() accepts; len() of any other value raises TypeError
HasLen(v) == IsStr(v) \/ IsBytes(v)

numeric_types ==
    {"INTEGER", "INT", "SMALLINT", "BIGINT", "TINYINT", "MEDIUMINT",
     "REAL", "FLOAT", "DOUBLE", "DECIMAL", "NUMERIC", "BOOLEAN"}
text_types ==
    {"TEXT", "VARCHAR", "CHAR", "NCHAR", "NVARCHAR", "NTEXT",
     "CLOB", "TINYTEXT", "MEDIUMTEXT", "LONGTEXT", "JSON", "XML"}
time_types == {"DATE", "DATETIME", "TIMESTAMP"}

\* data_type.split('(')[0].upper(), tabulated for the declared types of the model
BaseDataType(data_type) ==
    CASE data_type = "integer" -> "INTEGER"
      [] data_type = "datetime(6)" -> "DATETIME"
      [] OTHER -> data_type

\* value.strip() == "": every character of the string is white space
Whitespace == {" "}
IsBlank(s) == \A i \in DOMAIN s : s[i] \in Whitespace

\* a variant of is_empty for which only None is empty
IsEmptyNoneOnly(value) == IsNone(value)

\* is_empty of profile
IsEmpty(value) == IsNone(value) \/ (IsStr(value) /\ IsBlank(value[2]))

NonNullValues(all_values) == SelectSeq(all_values, LAMBDA v : ~IsEmpty(v))

\* str(n) of a natural number
DigitChars == <<"0", "1", "2", "3", "4", "5", "6", "7", "8", "9">>
RECURSIVE DecimalDigits(_)
DecimalDigits(n) ==
    IF n < 10 THEN <<DigitChars[n + 1]>>
    ELSE DecimalDigits(n \div 10) \o <<DigitChars[(n % 10) + 1]>>

\* "{:.0f}".format(num / den): the nearest integer, halves go to the even one
RoundHalfEven(num, den) ==
    LET quot == num \div den
        rest == num % den
    IN  IF 2 * rest < den THEN quot
        ELSE IF 2 * rest > den THEN quot + 1
        ELSE IF quot % 2 = 0 THEN quot ELSE quot + 1

\* "{:.0f}%".format(part / total * 100)
FormatPercent(part, total) == DecimalDigits(RoundHalfEven(100 * part, total)) \o <<"%">>

\* data_integrity of profile
DataIntegrity(all_values, non_null_values) ==
    IF all_values # <<>> THEN StrV(FormatPercent(Len(non_null_values), Len(all_values)))
    ELSE StrV(<<"1", "0", "0", "%">>)

\* random.sample(non_null_values, min(len(non_null_values), 6)): the sets of
\* positions the sample may take.  The order of the sample is left open: the
\* value "samples" is kept as the positions drawn with the values found there.
MaxSamples == 6
Min(a, b) == IF a < b THEN a ELSE b
SamplePicks(non_null_values) ==
    {picked \in SUBSET (DOMAIN non_null_values) :
        Cardinality(picked) = Min(Len(non_null_values), MaxSamples)}
SampleV(picked, values) == <<"sample", [i \in picked |-> values[i]]>>

\* s[:max_length] + '...' if len(s) > max_length else s
max_length == 30
Truncate(v) ==
    IF Len(v[2]) > max_length
    THEN <<v[1], SubSeq(v[2], 1, max_length) \o <<".", ".", ".">>>>
    ELSE v

\* the distinct elements of a list in the order of their first occurrence,
\* as the keys of Counter(values)
RECURSIVE CounterKeys(_)
CounterKeys(values) ==
    IF values = <<>> THEN <<>>
    ELSE LET front == CounterKeys(SubSeq(values, 1, Len(values) - 1))
             last == values[Len(values)]
         IN  IF last \in Range(front) THEN front ELSE Append(front, last)

CountOf(values, v) == Cardinality({i \in DOMAIN values : values[i] = v})

Max(S) == CHOOSE x \in S : \A y \in S : y <= x
Minimum(S) == CHOOSE x \in S : \A y \in S : x <= y

\* _get_mode, for lists of int
ModeOf(values, keys, max_count) ==
    IF max_count <= 1 THEN <<>>
    ELSE SelectSeq(keys, LAMBDA k : CountOf(values, k) = max_count)
HighestCount(values, keys) == Max({CountOf(values, keys[i]) : i \in DOMAIN keys})
GetMode(values) ==
    IF values = <<>> THEN <<>>
    ELSE ModeOf(values, CounterKeys(values), HighestCount(values, CounterKeys(values)))

RECURSIVE Gcd(_, _)
Gcd(a, b) == IF b = 0 THEN a ELSE Gcd(b, a % b)

\* total / count as a float, kept as a reduced fraction
Quotient(total, count) ==
    LET g == Gcd(total, count) IN FloatV(total \div g, count \div g)

RECURSIVE SumInts(_)
SumInts(values) == IF values = <<>> THEN 0 ELSE values[1][2] + SumInts(Tail(values))

\* float(np.mean(valid_values))
NumericMean(valid_values) == Quotient(SumInts(valid_values), Len(valid_values))

\* column_name.lower()
LowerChar(c) == CASE c = "I" -> "i" [] c = "D" -> "d" [] OTHER -> c
Lower(s) == [i \in DOMAIN s |-> LowerChar(s[i])]

\* sub in s
Contains(s, sub) ==
    \E i \in 0..(Len(s) - Len(sub)) : SubSeq(s, i + 1, i + Len(sub)) = sub

\* a variant of the id test that compares the name as written
IsIdColumnCaseSensitive(column_name) == Contains(column_name, <<"i", "d">>)

\* is_id_column of _analyze_numeric
IsIdColumn(column_name) == Contains(Lower(column_name), <<"i", "d">>)

\* _analyze_numeric: the attributes it adds.  min, max, Counter and np.mean of
\* int values raise nothing, so the two except branches are never entered.
NumericAnalysis(valid_values, numbers, mode, column_name) ==
    LET range == [numeric_range |->
                     IF valid_values # <<>>
                     THEN ListV(<<IntV(Minimum(numbers)), IntV(Max(numbers))>>)
                     ELSE NoneV]
    IN  IF IsIdColumn(column_name) THEN range
        ELSE DictUpdate(DictUpdate(range,
                                   IF mode # <<>> THEN [numeric_mode |-> ListV(mode)]
                                   ELSE EmptyDict),
                        [numeric_mean |->
                            IF valid_values # <<>> THEN NumericMean(valid_values) ELSE NoneV])
IntValues(values) == {values[i][2] : i \in DOMAIN values}
AnalyzeNumeric(values, column_name) ==
    NumericAnalysis(SelectSeq(values, IsInt), IntValues(SelectSeq(values, IsInt)),
                    GetMode(SelectSeq(values, IsInt)), column_name)

\* sorted(word_count_dict.items(), key=operator.itemgetter(1), reverse=True):
\* the keys by falling count, keys of equal count in the order of the dict
RECURSIVE ByFallingCount(_, _, _)
ByFallingCount(keys, values, count) ==
    IF count = 0 THEN <<>>
    ELSE SelectSeq(keys, LAMBDA k : CountOf(values, k) = count)
            \o ByFallingCount(keys, values, count - 1)

SortedWords(values) == ByFallingCount(CounterKeys(values), values, Len(values))

top_k == 10
max_one_freq == 3
max_one_freq_len == 20

\* a variant of the test on a word of frequency 1 that leaves its length out
KeepsOneFreqAnyLength(word, one_freq_count) == one_freq_count < max_one_freq

\* len(word) <= 20 and one_freq_count < 3
KeepsOneFreq(word, one_freq_count) ==
    Len(word[2]) <= max_one_freq_len /\ one_freq_count < max_one_freq

\* the loop of _get_word_frequency over the sorted items; result is the
\* dict being filled, as the list of its (word, freq) items in insertion order
RECURSIVE WordLoop(_, _, _, _, _)
WordLoop(words, values, result, one_freq_count, found_one_freq) ==
    IF words = <<>> \/ Len(result) >= top_k THEN result
    ELSE LET word == words[1]
             freq == CountOf(values, word)
         IN  IF freq = 1
             THEN IF KeepsOneFreq(word, one_freq_count)
                  THEN WordLoop(Tail(words), values, Append(result, <<word, freq>>),
                                one_freq_count + 1, TRUE)
                  ELSE WordLoop(Tail(words), values, result, one_freq_count, TRUE)
             ELSE IF ~found_one_freq
                  THEN WordLoop(Tail(words), values, Append(result, <<word, freq>>),
                                one_freq_count, found_one_freq)
                  ELSE WordLoop(Tail(words), values, result, one_freq_count, found_one_freq)

\* _get_word_frequency(values) with the defaults top_k=10, by_word=False, which
\* is how both DataProfiler and NetworkXSchemaParser call it
GetWordFrequency(values) ==
    IF values = <<>> THEN <<>>
    ELSE WordLoop(SortedWords(values), values, <<>>, 0, FALSE)

\* json.dumps(word_frequency_dict, ensure_ascii=False) for str keys and int values
JsonEscape(c) == CASE c = "\"" -> <<"\\", "\"">> [] c = "\\" -> <<"\\", "\\">> [] OTHER -> <<c>>
RECURSIVE JsonString(_)
JsonString(s) == IF s = <<>> THEN <<>> ELSE JsonEscape(s[1]) \o JsonString(Tail(s))
JsonItem(item) ==
    <<"\"">> \o JsonString(item[1][2]) \o <<"\"", ":", " ">> \o DecimalDigits(item[2])
JsonDumps(items) ==
    <<"{">> \o Join(<<",", " ">>, [i \in DOMAIN items |-> JsonItem(items[i])]) \o <<"}">>

\* list(set(values)): the order of the list is left open
max_categories == 6
ListOfSet(values) == <<"list_of_set", Range(values)>>

RECURSIVE SumLens(_)
SumLens(values) == IF values = <<>> THEN 0 ELSE Len(values[1][2]) + SumLens(Tail(values))

\* _get_average_char_length
GetAverageCharLength(values) ==
    IF values # <<>> THEN Quotient(SumLens(values), Len(values)) ELSE IntV(0)


\* _analyze_text: the attributes it adds, or the exception that leaves it.
\* len(v) of an int raises TypeError in _get_average_char_length; json.dumps
\* raises TypeError for a dict with a bytes key.
TextAnalysis(values, word_frequency_dict) ==
    IF \E i \in DOMAIN word_frequency_dict : IsBytes(word_frequency_dict[i][1])
    THEN Raise("TypeError")
    ELSE Return(DictUpdate(
                   DictUpdate(IF Cardinality(Range(values)) <= max_categories
                              THEN [text_categories |-> ListOfSet(values)] ELSE EmptyDict,
                              [average_char_length |->
                                  IF values # <<>> THEN GetAverageCharLength(values)
                                  ELSE IntV(0)]),
                   [word_frequency |-> StrV(JsonDumps(word_frequency_dict))]))
AnalyzeText(values) ==
    IF \E i \in DOMAIN values : ~HasLen(values[i]) THEN Raise("TypeError")
    ELSE TextAnalysis(values, IF values # <<>> THEN GetWordFrequency(values) ELSE <<>>)

\* datetime.date and datetime.datetime values
DateV(y, m, d) == <<"date", <<y, m, d>>>>
DateTimeV(y, m, d, hh, mm, ss) == <<"datetime", <<y, m, d, hh, mm, ss>>>>
IsDateTime(v) == v[1] = "datetime"

IsDigit(c) == \E n \in DOMAIN DigitChars : DigitChars[n] = c
DigitValue(c) == (CHOOSE n \in DOMAIN DigitChars : DigitChars[n] = c) - 1
AllDigits(s) == s # <<>> /\ \A i \in DOMAIN s : IsDigit(s[i])
RECURSIVE ParseNat(_)
ParseNat(s) ==
    IF s = <<>> THEN 0
    ELSE 10 * ParseNat(SubSeq(s, 1, Len(s) - 1)) + DigitValue(s[Len(s)])

IsLeap(y) == (y % 4 = 0 /\ y % 100 # 0) \/ y % 400 = 0
DaysInMonth(y, m) ==
    IF m = 2 THEN (IF IsLeap(y) THEN 29 ELSE 28)
    ELSE IF m \in {4, 6, 9, 11} THEN 30 ELSE 31

\* datetime.strptime for the formats the values of the model can match, with
\* every field at its full width; None stands for the ValueError of a mismatch
ParseDate(s) ==
    IF /\ Len(s) = 10 /\ s[5] = "-" /\ s[8] = "-"
       /\ AllDigits(SubSeq(s, 1, 4)) /\ AllDigits(SubSeq(s, 6, 7)) /\ AllDigits(SubSeq(s, 9, 10))
    THEN LET y == ParseNat(SubSeq(s, 1, 4))
             m == ParseNat(SubSeq(s, 6, 7))
             d == ParseNat(SubSeq(s, 9, 10))
         IN  IF y >= 1 /\ m \in 1..12 /\ d >= 1 /\ d <= DaysInMonth(y, m)
             THEN DateV(y, m, d) ELSE NoneV
    ELSE NoneV

WithTime(day, hh, mm, ss) ==
    IF ~IsNone(day) /\ hh < 24 /\ mm < 60 /\ ss < 60
    THEN DateTimeV(day[2][1], day[2][2], day[2][3], hh, mm, ss) ELSE NoneV
ParseDateTime(s, sep) ==
    IF /\ Len(s) = 19 /\ s[11] = sep /\ s[14] = ":" /\ s[17] = ":"
       /\ AllDigits(SubSeq(s, 12, 13)) /\ AllDigits(SubSeq(s, 15, 16))
       /\ AllDigits(SubSeq(s, 18, 19))
    THEN WithTime(ParseDate(SubSeq(s, 1, 10)), ParseNat(SubSeq(s, 12, 13)),
                  ParseNat(SubSeq(s, 15, 16)), ParseNat(SubSeq(s, 18, 19)))
    ELSE NoneV

ParseYear(s) ==
    IF Len(s) = 4 /\ AllDigits(s) /\ ParseNat(s) >= 1 THEN DateV(ParseNat(s), 1, 1) ELSE NoneV

\* str(value) of a value that is not a str
StrOf(v) ==
    IF IsInt(v) THEN DecimalDigits(v[2])
    ELSE IF IsBytes(v) THEN <<"b", "'">> \o v[2] \o <<"'">>
    ELSE <<"N", "o", "n", "e">>

\* the result of the first format that matches, of three tried in this order
FirstMatch(first, second, third) ==
    IF ~IsNone(first) THEN first ELSE IF ~IsNone(second) THEN second ELSE third

\* convert_date_string: the first format of the list that matches wins; of its
\* 22 formats the three that the values of the model can match are tried here
\* ('%Y-%m-%d', '%Y-%m-%d %H:%M:%S', '%Y'), in the order of the list
DateStr(v) == IF IsStr(v) THEN v[2] ELSE StrOf(v)
ConvertDateString(v) ==
    FirstMatch(ParseDate(DateStr(v)), ParseDateTime(DateStr(v), " "), ParseYear(DateStr(v)))

\* parser.isoparse of dateutil, for 'YYYY-MM-DDTHH:MM:SS'; None stands for its ValueError
IsoParse(s) == ParseDateTime(s, "T")

\* the order of two dates, or of two datetimes: the order of their fields
RECURSIVE FieldsLess(_, _)
FieldsLess(a, b) ==
    IF a = <<>> THEN FALSE
    ELSE IF a[1] # b[1] THEN a[1] < b[1]
    ELSE FieldsLess(Tail(a), Tail(b))

\* comparing a date with a datetime raises TypeError, so min() and max() of a
\* list that holds both kinds raise it
MixedKinds(times) == \E i, j \in DOMAIN times : times[i][1] # times[j][1]
MinTime(times) ==
    times[CHOOSE i \in DOMAIN times : \A j \in DOMAIN times : ~FieldsLess(times[j][2], times[i][2])]
MaxTime(times) ==
    times[CHOOSE i \in DOMAIN times : \A j \in DOMAIN times : ~FieldsLess(times[i][2], times[j][2])]

\* the day number of a civil date (proleptic Gregorian calendar)
DayNumber(y, m, d) ==
    LET yy == IF m <= 2 THEN y - 1 ELSE y
        era == yy \div 400
        yoe == yy - era * 400
        mp == IF m > 2 THEN m - 3 ELSE m + 9
        doy == (153 * mp + 2) \div 5 + d - 1
        doe == yoe * 365 + yoe \div 4 - yoe \div 100 + doy
    IN  era * 146097 + doe

\* (max_time - min_time).days: the whole days of the difference
SecondOfDay(t) == IF IsDateTime(t) THEN t[2][4] * 3600 + t[2][5] * 60 + t[2][6] ELSE 0
DaysBetween(min_time, max_time) ==
    DayNumber(max_time[2][1], max_time[2][2], max_time[2][3])
        - DayNumber(min_time[2][1], min_time[2][2], min_time[2][3])
        - (IF SecondOfDay(max_time) < SecondOfDay(min_time) THEN 1 ELSE 0)

\* the elements of a list that are not None
NotNone(values) == SelectSeq(values, LAMBDA t : ~IsNone(t))

\* _get_time_span, for a non-empty list of values
TimeSpanOf(datetime_values) ==
    IF datetime_values = <<>> THEN Return(NoneV)
    ELSE IF MixedKinds(datetime_values) THEN Raise("TypeError")
    ELSE Return(StrV(DecimalDigits(DaysBetween(MinTime(datetime_values),
                                                MaxTime(datetime_values)))
                     \o <<" ", "d", "a", "y", "s">>))
GetTimeSpan(values) ==
    TimeSpanOf(NotNone([i \in DOMAIN values |-> ConvertDateString(values[i])]))

\* strftime('%Y-%m-%d') and strftime('%Y-%m-%d %H:%M:%S')
Pad(n, width) ==
    LET digits == DecimalDigits(n)
    IN  [i \in 1..(width - Len(digits)) |-> "0"] \o digits
FormatValue(t) ==
    LET day == Pad(t[2][1], 4) \o <<"-">> \o Pad(t[2][2], 2) \o <<"-">> \o Pad(t[2][3], 2)
    IN  IF IsDateTime(t)
        THEN StrV(day \o <<" ">> \o Pad(t[2][4], 2) \o <<":">> \o Pad(t[2][5], 2)
                      \o <<":">> \o Pad(t[2][6], 2))
        ELSE StrV(day)

\* the value parsed from one element by _calculate_time_attributes
ParsedTime(v) ==
    IF IsStr(v)
    THEN IF "T" \in Range(v[2]) THEN IsoParse(v[2]) ELSE ConvertDateString(v)
    ELSE NoneV

\* _calculate_time_attributes
TimeAttributesOf(parsed_values) ==
    IF parsed_values = <<>>
    THEN Return([earliest_time |-> NoneV, latest_time |-> NoneV])
    ELSE IF MixedKinds(parsed_values) THEN Raise("TypeError")
    ELSE Return([earliest_time |-> FormatValue(MinTime(parsed_values)),
                 latest_time |-> FormatValue(MaxTime(parsed_values))])
CalculateTimeAttributes(values) ==
    TimeAttributesOf(NotNone([i \in DOMAIN values |-> ParsedTime(values[i])]))

\* _analyze_time: the attributes it adds, or the exception that leaves it
TimeAnalysis(time_span, time_attributes) ==
    IF time_span.raised # "none" THEN time_span
    ELSE IF time_attributes.raised # "none" THEN time_attributes
    ELSE Return(DictUpdate([time_span |-> time_span.value], time_attributes.value))
AnalyzeTime(values) ==
    IF values = <<>> THEN Return([time_span |-> NoneV])
    ELSE TimeAnalysis(GetTimeSpan(values), CalculateTimeAttributes(values))

\* the samples of profile: those of a text column are truncated
Samples(base_data_type, picked, non_null_values) ==
    IF base_data_type \in text_types
    THEN SampleV(picked, [i \in DOMAIN non_null_values |->
                              IF HasLen(non_null_values[i])
                              THEN Truncate(non_null_values[i])
                              ELSE non_null_values[i]])
    ELSE SampleV(picked, non_null_values)

\* the analysis by type of profile
Analysis(base_data_type, non_null_values, column_name) ==
    IF base_data_type \in numeric_types
    THEN Return(AnalyzeNumeric(non_null_values, column_name))
    ELSE IF base_data_type \in text_types THEN AnalyzeText(non_null_values)
    ELSE IF base_data_type \in time_types THEN AnalyzeTime(non_null_values)
    ELSE Return(EmptyDict)

\* the bundle profile returns, or the exception that leaves it.  In a text
\* column len(s) of a sampled int raises TypeError, and so does
\* s[:30] + '...' of sampled bytes longer than 30.
ProfileOf(all_values, non_null_values, base_data_type, picked, analysis) ==
    IF /\ base_data_type \in text_types
       /\ \E i \in picked : \/ ~HasLen(non_null_values[i])
                            \/ (IsBytes(non_null_values[i])
                                  /\ Len(non_null_values[i][2]) > max_length)
    THEN Raise("TypeError")
    ELSE IF analysis.raised # "none" THEN analysis
    ELSE Return(DictUpdate(
                   DictUpdate([null_count |-> IntV(Len(all_values) - Len(non_null_values)),
                               data_integrity |-> DataIntegrity(all_values, non_null_values),
                               sample_count |-> IntV(Len(non_null_values))],
                              [samples |-> Samples(base_data_type, picked, non_null_values)]),
                   analysis.value))

\* DataProfiler.profile, for the positions `picked` drawn by random.sample
Profile(all_values, data_type, column_name, picked) ==
    ProfileOf(all_values, NonNullValues(all_values), BaseDataType(data_type), picked,
              Analysis(BaseDataType(data_type), NonNullValues(all_values), column_name))

-----------------------------------------------------------------------------
(* Stored column values and how sqlite3 hands them over.  A stored value  *)
(* is NULL, an INTEGER, a TEXT or a BLOB; the content of a TEXT or BLOB is *)
(* a sequence of bytes: "a" and " " are ASCII bytes, "C3" "A9" is the      *)
(* UTF-8 encoding of one character, "FF" is never valid in UTF-8.          *)

NullS == <<"NULL">>
IntegerS(n) == <<"INTEGER", n>>
TextS(b) == <<"TEXT", b>>
BlobS(b) == <<"BLOB", b>>

AsciiBytes == {"a", " "}

\* bytes.decode('utf-8', errors=...): the characters, or the failure of a
\* strict decoding; errors='ignore' drops each byte that cannot be decoded
RECURSIVE Utf8Decode(_, _)
Utf8Decode(b, errors) ==
    IF b = <<>> THEN [ok |-> TRUE, chars |-> <<>>]
    ELSE IF b[1] \in AsciiBytes
    THEN LET rest == Utf8Decode(Tail(b), errors)
         IN  [ok |-> rest.ok, chars |-> <<b[1]>> \o rest.chars]
    ELSE IF b[1] = "C3" /\ Len(b) >= 2 /\ b[2] = "A9"
    THEN LET rest == Utf8Decode(SubSeq(b, 3, Len(b)), errors)
         IN  [ok |-> rest.ok, chars |-> <<"e'">> \o rest.chars]
    ELSE IF errors = "ignore" THEN Utf8Decode(Tail(b), errors)
    ELSE [ok |-> FALSE, chars |-> <<>>]

\* the Python value of a stored value under a text_factory; a TEXT that is
\* not valid UTF-8 cannot be turned into a str
Convertible(stored, text_factory) ==
    ~(stored[1] = "TEXT" /\ text_factory = "str") \/ Utf8Decode(stored[2], "strict").ok
PythonValue(stored, text_factory) ==
    CASE stored[1] = "NULL" -> NoneV
      [] stored[1] = "INTEGER" -> IntV(stored[2])
      [] stored[1] = "BLOB" -> BytesV(stored[2])
      [] stored[1] = "TEXT" ->
            IF text_factory = "str" THEN StrV(Utf8Decode(stored[2], "strict").chars)
            ELSE BytesV(stored[2])

\* the rows a SELECT of one column yields, with or without LIMIT
Limited(rows, limit) ==
    IF IsNone(limit) THEN rows ELSE SubSeq(rows, 1, Min(Len(rows), limit[2]))

\* "limit = 100000 if row_count > 100000 else None" of the two builds
RowLimit == 100000
ReadLimit(row_count) == IF row_count[2] > RowLimit THEN IntV(RowLimit) ELSE NoneV

\* cursor.execute(query); cursor.fetchall(); [row[0] for row in rows]: the
\* values, or sqlite3.OperationalError ("Could not decode to UTF-8 column")
\* when the text_factory is str and a TEXT is not valid UTF-8.  engine is
\* "ok" or the exception with which SQLite itself fails the query.
SelectColumn(rows, limit, text_factory, engine) ==
    LET selected == Limited(rows, limit)
    IN  IF engine # "ok" THEN Raise(engine)
        ELSE IF \E i \in DOMAIN selected : ~Convertible(selected[i], text_factory)
        THEN Raise("OperationalError")
        ELSE Return([i \in DOMAIN selected |-> PythonValue(selected[i], text_factory)])

\* value.decode('utf-8', errors='ignore') of the values that are bytes
DecodeIgnoring(values) ==
    [i \in DOMAIN values |->
        IF IsBytes(values[i]) THEN StrV(Utf8Decode(values[i][2], "ignore").chars)
        ELSE values[i]]

\* a variant of fetch_column_data's handling of a failed retry that lets the
\* exception out
RetryFailedPropagates(exception) == Raise(exception)

\* "except Exception as e_fallback: ... return []"
RetryFailed(exception) == Return(<<>>)

\* a variant of the retry that leaves the connection as the retry set it
LeaveFactory(original_factory, current) == current

\* "finally: self.conn.text_factory = original_factory" of the retry
RestoreFactory(original_factory, current) == original_factory

\* SQLiteHandler.fetch_column_data: the outcome of the call and the
\* text_factory it leaves on the connection.  first and retry are "ok" or the
\* exception with which SQLite fails the first and the second execute.
FetchColumnData(rows, limit, text_factory, first, retry) ==
    LET normal == SelectColumn(rows, limit, text_factory, first)
        original_factory == text_factory
        fallback == SelectColumn(rows, limit, "bytes", retry)
    IN  IF normal.raised = "none"
        THEN [outcome |-> normal, text_factory |-> text_factory, retried |-> FALSE]
        ELSE IF normal.raised = "OperationalError"
        THEN [outcome |-> IF fallback.raised = "none"
                          THEN Return(DecodeIgnoring(fallback.value))
                          ELSE RetryFailed(fallback.raised),
              text_factory |-> RestoreFactory(original_factory, "bytes"),
              retried |-> TRUE]
        ELSE [outcome |-> normal, text_factory |-> text_factory, retried |-> FALSE]

-----------------------------------------------------------------------------
(* The SQLite source of a build, as the PRAGMA queries of the build see    *)
(* it.  A database is a sequence of tables in sqlite_master order; a table *)
(* has its PRAGMA table_info rows (name, type, notnull, pk) and its PRAGMA *)
(* foreign_key_list rows (table, from, to), "to" being None when the       *)
(* declaration omits the target column.  A table also has the rows it      *)
(* stores, column by column.  No description file exists.  The tables of   *)
(* Databases hold no rows and their columns are of type BLOB; the tables   *)
(* of DataDatabases hold one row.                                          *)

\* get_database_name: the file name without its extension
DbName == <<"d">>

ColumnInfo(name, pk) == [name |-> name, type |-> "BLOB", notnull |-> 0, pk |-> pk]

ColumnNames(infos) == [i \in DOMAIN infos |-> infos[i].name]

\* the column layouts a table of the given name may have
Layouts(t) ==
    CASE t = NameA -> { <<ColumnInfo(NameB, 0), ColumnInfo(NameC, 1)>> }
      [] t = NameAdotB -> { <<ColumnInfo(NameC, 1)>>, <<ColumnInfo(NameC, 0)>> }
      [] OTHER -> { <<ColumnInfo(<<"n">>, 0), ColumnInfo(<<"s">>, 0)>> }

SourceTableNames == {NameA, NameAdotB, SqliteSequence}

\* sequences of distinct table names, as sqlite_master lists them
TableSeqs ==
    {s \in UNION {[1..n -> SourceTableNames] : n \in 1..MaxTables} :
        \A i, j \in DOMAIN s : i # j => s[i] # s[j]}

\* the foreign keys that tables of the given names may declare
FkDeclarations(names) ==
    [src : names \ {SqliteSequence}, from : {NameC},
     table : {NameA, NameAdotB}, to : {NoneV, StrV(NameC)}]

FkSeqs(names) == UNION {[1..n -> FkDeclarations(names)] : n \in 0..MaxFks}

\* the database with tables s, layouts lay and foreign keys F (each with its source table)
MakeDb(s, lay, F) ==
    [i \in DOMAIN s |->
        [name |-> s[i], columns |-> lay[s[i]],
         fks |-> SelectSeq(F, LAMBDA r : r.src = s[i]),
         data |-> [c \in Range(ColumnNames(lay[s[i]])) |-> <<>>]]]

\* one layout for each table of s
LayoutChoices(s) ==
    {lay \in [Range(s) -> UNION {Layouts(t) : t \in Range(s)}] :
        \A t \in Range(s) : lay[t] \in Layouts(t)}

Databases ==
    UNION { UNION { {MakeDb(s, lay, F) : F \in FkSeqs(Range(s))} : lay \in LayoutChoices(s) } :
            s \in TableSeqs }

\* a database of one table a with one row: column b of the given declared
\* type holds the given value, the primary-key column c holds 1
DataDb(type, stored) ==
    << [name |-> NameA,
        columns |-> <<[name |-> NameB, type |-> type, notnull |-> 0, pk |-> 0],
                      ColumnInfo(NameC, 1)>>,
        fks |-> <<>>,
        data |-> (NameB :> <<stored>>) @@ (NameC :> <<IntegerS(1)>>)] >>

\* a text that is valid UTF-8, a text that is not, and an integer in a
\* column declared JSON (NUMERIC affinity: the integer is stored as it is)
DataDatabases ==
    {DataDb("BLOB", TextS(<<"a">>)), DataDb("BLOB", TextS(<<"a", "FF">>)),
     DataDb("JSON", IntegerS(1))}

-----------------------------------------------------------------------------
(* SQLiteHandler queries (and the same queries of NetworkXSchemaParser).   *)

TableNamed(d, name) == d[CHOOSE i \in DOMAIN d : d[i].name = name]
HasTable(d, name) == \E i \in DOMAIN d : d[i].name = name

\* sqlite_master names, in order
MasterNames(d) == [i \in DOMAIN d |-> d[i].name]

\* get_all_tables: every table except sqlite_sequence
GetAllTables(d) == SelectSeq(MasterNames(d), LAMBDA n : n # SqliteSequence)

\* PRAGMA table_info: no rows for a table the database does not have
GetColumnsInfo(d, name) == IF HasTable(d, name) THEN TableNamed(d, name).columns ELSE <<>>

\* PRAGMA foreign_key_list
GetForeignKeys(d, name) == IF HasTable(d, name) THEN TableNamed(d, name).fks ELSE <<>>

\* get_primary_key_columns: the columns with pk != 0, in column order
GetPrimaryKeyColumns(d, name) ==
    ColumnNames(SelectSeq(GetColumnsInfo(d, name), LAMBDA info : info.pk # 0))

\* get_foreign_key_columns
GetForeignKeyColumns(d, name) ==
    LET fks == GetForeignKeys(d, name) IN [i \in DOMAIN fks |-> fks[i].from]

\* is_primary_key, is_foreign_key, is_nullable
IsPrimaryKey(d, name, column) ==
    \E i \in DOMAIN GetColumnsInfo(d, name) :
        GetColumnsInfo(d, name)[i].name = column /\ GetColumnsInfo(d, name)[i].pk # 0
IsForeignKey(d, name, column) ==
    \E i \in DOMAIN GetForeignKeys(d, name) : GetForeignKeys(d, name)[i].from = column
IsNullable(d, name, column) ==
    LET infos == GetColumnsInfo(d, name)
        hits == {i \in DOMAIN infos : infos[i].name = column}
    IN  IF hits = {} THEN NoneV
        ELSE BoolV(infos[CHOOSE i \in hits : \A k \in hits : i <= k].notnull = 0)

\* the rows of a column
ColumnRows(d, name, column) == TableNamed(d, name).data[column]

\* get_row_count: the count, or None when the COUNT query fails
RowCounts(d, name) ==
    LET columns == ColumnNames(GetColumnsInfo(d, name))
    IN  {IntV(IF columns = <<>> THEN 0 ELSE Len(ColumnRows(d, name, columns[1]))), NoneV}

StrList(names) == ListV([i \in DOMAIN names |-> StrV(names[i])])

-----------------------------------------------------------------------------
(* The build: SchemaPipeline.run and                                       *)
(* NetworkXSchemaParser._build_graph_in_memory, one step per graph         *)
(* mutation.                                                               *)

\* the tables the build's loops iterate over
LoopTables ==
    IF runner = "pipeline" THEN GetAllTables(db) ELSE MasterNames(db)

\* the parser's loops skip sqlite_sequence with "continue"
Skipped(i) == runner = "parser" /\ LoopTables[i] = SqliteSequence

\* position of the foreign-key loops at row j of table i, or past their end
RECURSIVE FkPos(_, _)
FkPos(i, j) ==
    IF i > Len(LoopTables) THEN <<"exit", 0, 0>>
    ELSE IF Skipped(i) THEN FkPos(i + 1, 1)
    ELSE IF j <= Len(GetForeignKeys(db, LoopTables[i])) THEN <<"fk", i, j>>
    ELSE FkPos(i + 1, 1)

\* position of the table loop at table i, or the start of the foreign-key phase
RECURSIVE TablePos(_)
TablePos(i) ==
    IF i > Len(LoopTables) THEN FkPos(1, 1)
    ELSE IF Skipped(i) THEN TablePos(i + 1)
    ELSE <<"table", i, 0>>

\* a variant of AfterColumns that handles a table's foreign keys right after its columns
AfterColumnsThenFks(i) == FkPos(i, 1)

\* position after the last column of table i: the next table
AfterColumns(i) == TablePos(i + 1)

\* position inside table i after its column j
ColumnPos(i, j) ==
    IF j <= Len(GetColumnsInfo(db, LoopTables[i])) THEN <<"column", i, j>>
    ELSE AfterColumns(i)

GoTo(pos) == pc' = pos[1] /\ ti' = pos[2] /\ ci' = pos[3]

\* single value or list, as table_props stores primary_key and foreign_key
OneOrList(names) == IF Len(names) > 1 THEN StrList(names) ELSE StrV(names[1])

\* table_props of SchemaPipeline.run
TableProps(d, name, row_count) ==
    LET pk_columns == GetPrimaryKeyColumns(d, name)
        fk_columns == GetForeignKeyColumns(d, name)
        all_columns == ColumnNames(GetColumnsInfo(d, name))
        base == [row_count |-> row_count,
                 column_count |-> IntV(Len(all_columns)),
                 columns |-> StrList(all_columns),
                 database_name |-> StrV(DbName)]
        pk == IF pk_columns # <<>> THEN [primary_key |-> OneOrList(pk_columns)] ELSE EmptyDict
        fk == IF fk_columns # <<>> THEN [foreign_key |-> OneOrList(fk_columns)] ELSE EmptyDict
    IN  fk @@ pk @@ base

\* the lists a sample may be: its values in any order
SampleLists(sample) ==
    LET picked == DOMAIN sample[2]
        n == Cardinality(picked)
    IN  {ListV([i \in 1..n |-> sample[2][order[i]]]) :
            order \in {f \in [1..n -> picked] : \A i, j \in 1..n : i # j => f[i] # f[j]}}

\* the engine outcomes of the retry of a column read: a retry takes place
\* only when the first read cannot decode a text
RetryOutcomes(rows, limit) ==
    IF SelectColumn(rows, limit, tf, "ok").raised = "none" THEN {"ok"}
    ELSE {"ok", "OperationalError"}

\* raw_data and profile_props of SchemaPipeline.run for a column
PipelineProfile(rows, row_count, info, retry, picked) ==
    Profile(FetchColumnData(rows, ReadLimit(row_count), tf, "ok", retry).outcome.value,
            info.type, info.name, picked)
PipelinePicks(rows, row_count, retry) ==
    SamplePicks(NonNullValues(
        FetchColumnData(rows, ReadLimit(row_count), tf, "ok", retry).outcome.value))

\* final_props of SchemaPipeline.run (no description file: nothing is merged in)
FinalProps(d, name, info, profile_props) ==
    DictUpdate([data_type |-> StrV(info.type), is_nullable |-> IsNullable(d, name, info.name)],
               profile_props)

\* attrs of _create_table_node_nx
ParserTableAttrs(d, name, row_count) ==
    [type |-> StrV("Table"), name |-> StrV(name), row_count |-> row_count,
     primary_key |-> StrList(GetPrimaryKeyColumns(d, name)),
     columns |-> StrList(ColumnNames(GetColumnsInfo(d, name)))]

\* what _get_column_samples_and_attributes returns: when the column query
\* succeeds, no samples and no attributes; after a byte-mode retry, for a
\* column whose type is in none of the numeric, text and time lists, the
\* sample and the counts, is_nullable and key_type
SamplesAndAttributes(d, name, info, values, retried, picked) ==
    IF ~retried THEN [samples |-> SampleV({}, <<>>), attrs |-> EmptyDict]
    ELSE LET non_null_values == NonNullValues(values)
             key_type == (IF IsPrimaryKey(d, name, info.name) THEN <<StrV("primary_key")>> ELSE <<>>)
                            \o (IF IsForeignKey(d, name, info.name) THEN <<StrV("foreign_key")>> ELSE <<>>)
         IN  [samples |-> SampleV(picked, non_null_values),
              attrs |-> DictUpdate(
                           [null_count |-> IntV(Len(values) - Len(non_null_values)),
                            data_integrity |-> DataIntegrity(values, non_null_values),
                            sample_count |-> IntV(Len(non_null_values)),
                            is_nullable |-> IsNullable(d, name, info.name)],
                           IF key_type # <<>> THEN [key_type |-> ListV(key_type)] ELSE EmptyDict)]

\* attrs of _create_column_node_nx
ParserColumnAttrs(name, info, samples, additional_attrs) ==
    DictUpdate([type |-> StrV("Column"), name |-> StrV(info.name), data_type |-> StrV(info.type),
                samples |-> samples, belongs_to |-> StrV(name)],
               additional_attrs)

\* rel_type of _create_column_node_nx
ParserRelType(attrs) ==
    IF "key_type" \in DOMAIN attrs
          /\ \E i \in DOMAIN attrs["key_type"][2] : attrs["key_type"][2][i] = StrV("primary_key")
    THEN "primary_key" ELSE "normal_column"

\* a variant of ResolveTarget that never infers the target column
ResolveTargetDeclaredOnly(d, fk) == fk.to

\* the target column of a foreign key: the declared one, or the first
\* primary-key column of the target table when none is declared and one exists
ResolveTarget(d, fk) ==
    IF IsNone(fk.to)
    THEN LET target_pks == GetPrimaryKeyColumns(d, fk.table)
         IN  IF target_pks # <<>> THEN StrV(target_pks[1]) ELSE fk.to
    ELSE fk.to

\* truth value of a resolved target column
Truthy(v) == ~IsNone(v) /\ v[2] # <<>>

BuildInit ==
    /\ db \in Databases \cup DataDatabases
    /\ runner \in {"pipeline", "parser"}
    /\ pc = "start" /\ ti = 0 /\ ci = 0 /\ conn = "none" /\ rc = NoneV
    /\ tf = "none" /\ fconn = "none"
    /\ LoaderIdle /\ HashIdle /\ ExplorerIdle /\ ProfilerIdle

\* one recorded mutation of the graph
Mutate(g, call) == G' = g /\ pre' = G /\ calls' = Append(calls, call)

\* entering the with block / sqlite3.connect, and listing the tables
Connect ==
    /\ pc = "start"
    /\ conn' = "open" /\ tf' = "str"
    /\ GoTo(TablePos(1))
    /\ UNCHANGED <<G, calls, pre, nops, disk, loaded, db, runner, fconn, rc, hashVars, explorerVars, profilerVars>>

\* the table node of table ti
TableStep ==
    /\ pc = "table"
    /\ \E row_count \in RowCounts(db, LoopTables[ti]) :
          LET name == LoopTables[ti]
          IN  /\ rc' = row_count
              /\ IF runner = "pipeline"
                 THEN LET props == TableProps(db, name, row_count)
                      IN  Mutate(AddTableNodeOp(G, name, props), <<"add_table_node", name, props>>)
                 ELSE Mutate(NxAddNode(G, name, ParserTableAttrs(db, name, row_count)),
                             <<"_create_table_node_nx", name, row_count>>)
    /\ GoTo(ColumnPos(ti, 1))
    /\ UNCHANGED <<nops, disk, loaded, db, runner, tf, fconn, conn, hashVars, explorerVars, profilerVars>>

\* the column at hand, its stored rows, and the parser's first read of them
ColumnAtHand == GetColumnsInfo(db, LoopTables[ti])[ci]
RowsAtHand == ColumnRows(db, LoopTables[ti], ColumnAtHand.name)
FirstRead == SelectColumn(RowsAtHand, ReadLimit(rc), tf, "ok")

\* the column node and HAS_COLUMN edge of column ci of table ti.  SchemaPipeline.run
\* fetches the values (fetch_column_data leaves the text_factory as it found
\* it) and profiles them; the parser reads them and keeps nothing of them.
ColumnStep ==
    /\ pc = "column"
    /\ ~IsNone(rc)
    /\ LET name == LoopTables[ti]
           info == ColumnAtHand
       IN  IF runner = "pipeline"
           THEN \E retry \in RetryOutcomes(RowsAtHand, ReadLimit(rc)) :
                \E picked \in PipelinePicks(RowsAtHand, rc, retry) :
                   LET profile == PipelineProfile(RowsAtHand, rc, info, retry, picked)
                   IN  /\ profile.raised = "none"
                       /\ \E samples \in SampleLists(profile.value["samples"]) :
                             LET is_pk == IsPrimaryKey(db, name, info.name)
                                 is_fk == IsForeignKey(db, name, info.name)
                                 props == FinalProps(db, name, info,
                                              [profile.value EXCEPT !["samples"] = samples])
                             IN  Mutate(AddColumnNodeOp(G, name, info.name, is_pk, is_fk, props),
                                        <<"add_column_node", name, info.name, is_pk, is_fk, props>>)
           ELSE /\ FirstRead.raised = "none"
                /\ LET got == SamplesAndAttributes(db, name, info, FirstRead.value, FALSE, {})
                       attrs == ParserColumnAttrs(name, info, ListV(<<>>), got.attrs)
                       node_id == Qualified(name, info.name)
                   IN  Mutate(NxAddEdge(NxAddNode(G, node_id, attrs), name, node_id,
                                        [type |-> StrV("HAS_COLUMN"),
                                         relation_type |-> StrV(ParserRelType(attrs))]),
                              <<"_create_column_node_nx", name, info.name>>)
    /\ GoTo(ColumnPos(ti, ci + 1))
    /\ UNCHANGED <<nops, disk, loaded, db, runner, tf, fconn, conn, rc, hashVars, explorerVars, profilerVars>>

\* "row_count > 100000" with row_count None: TypeError leaves the build,
\* the with block / finally clause closes the connection
ColumnStepTypeError ==
    /\ pc = "column"
    /\ IsNone(rc)
    /\ pc' = "failed" /\ conn' = "closed"
    /\ UNCHANGED <<G, calls, pre, nops, disk, loaded, db, runner, tf, fconn, ti, ci, rc, hashVars, explorerVars, profilerVars>>

\* SchemaPipeline.run: profile raises, nothing catches it, the with block
\* closes the connection and the exception leaves run
ColumnStepProfileError ==
    /\ pc = "column" /\ runner = "pipeline"
    /\ ~IsNone(rc)
    /\ \E retry \in RetryOutcomes(RowsAtHand, ReadLimit(rc)) :
       \E picked \in PipelinePicks(RowsAtHand, rc, retry) :
          PipelineProfile(RowsAtHand, rc, ColumnAtHand, retry, picked).raised # "none"
    /\ pc' = "failed" /\ conn' = "closed"
    /\ UNCHANGED <<G, calls, pre, nops, disk, loaded, db, runner, tf, fconn, ti, ci, rc, hashVars, explorerVars, profilerVars>>

\* what may have become of the parser's extra connection once its with block
\* is left: the block commits or rolls back and does not close it, so it is
\* open until the interpreter reclaims the unreferenced connection object
AfterWithBlock == {"open", "closed"}

\* the parser's column read fails with OperationalError and the byte-mode
\* retry on a second connection succeeds
ParserRetryStep ==
    /\ pc = "column" /\ runner = "parser"
    /\ ~IsNone(rc)
    /\ FirstRead.raised = "OperationalError"
    /\ LET name == LoopTables[ti]
           info == ColumnAtHand
           fallback == SelectColumn(RowsAtHand, ReadLimit(rc), "bytes", "ok")
           all_values == DecodeIgnoring(fallback.value)
       IN  \E picked \in SamplePicks(NonNullValues(all_values)) :
              LET got == SamplesAndAttributes(db, name, info, all_values, TRUE, picked)
              IN  \E samples \in SampleLists(got.samples) :
                     LET attrs == ParserColumnAttrs(name, info, samples, got.attrs)
                         node_id == Qualified(name, info.name)
                     IN  Mutate(NxAddEdge(NxAddNode(G, node_id, attrs), name, node_id,
                                          [type |-> StrV("HAS_COLUMN"),
                                           relation_type |-> StrV(ParserRelType(attrs))]),
                                <<"_create_column_node_nx", name, info.name>>)
    /\ fconn' \in AfterWithBlock
    /\ GoTo(ColumnPos(ti, ci + 1))
    /\ UNCHANGED <<nops, disk, loaded, db, runner, tf, conn, rc, hashVars, explorerVars, profilerVars>>

\* the parser's byte-mode retry fails as well: nothing catches the exception,
\* the with block of the extra connection is left, the finally clause of the
\* build closes the build's own connection
ParserRetryError ==
    /\ pc = "column" /\ runner = "parser"
    /\ ~IsNone(rc)
    /\ FirstRead.raised = "OperationalError"
    /\ fconn' \in AfterWithBlock
    /\ pc' = "failed" /\ conn' = "closed"
    /\ UNCHANGED <<G, calls, pre, nops, disk, loaded, db, runner, tf, ti, ci, rc, hashVars, explorerVars, profilerVars>>

\* foreign key ci of table ti, SchemaPipeline.run: inserted when its target column resolves
PipelineFkStep ==
    /\ pc = "fk" /\ runner = "pipeline"
    /\ LET name == LoopTables[ti]
           fk == GetForeignKeys(db, name)[ci]
           to_column == ResolveTarget(db, fk)
       IN  IF Truthy(to_column)
           THEN Mutate(AddForeignKeyOp(G, name, fk.from, fk.table, to_column[2]),
                       <<"add_foreign_key", name, fk.from, fk.table, to_column[2]>>)
           ELSE UNCHANGED <<G, calls, pre>>
    /\ GoTo(FkPos(ti, ci + 1))
    /\ UNCHANGED <<nops, disk, loaded, db, runner, tf, fconn, conn, rc, hashVars, explorerVars, profilerVars>>

\* foreign key ci of table ti, _create_fk_edge_nx
ParserFkStep ==
    /\ pc = "fk" /\ runner = "parser"
    /\ LET name == LoopTables[ti]
           fk == GetForeignKeys(db, name)[ci]
       IN  /\ ~IsNone(fk.to) \/ GetPrimaryKeyColumns(db, fk.table) # <<>>
           /\ LET to_col == IF IsNone(fk.to) THEN GetPrimaryKeyColumns(db, fk.table)[1] ELSE fk.to[2]
              IN  Mutate(NxAddEdge(G, name, fk.table,
                                   [type |-> StrV("FOREIGN_KEY"),
                                    from_column |-> StrV(fk.from),
                                    to_column |-> StrV(to_col),
                                    reference_path |-> StrV(ReferencePath(name, fk.from, fk.table, to_col))]),
                         <<"_create_fk_edge_nx", name, fk.from, fk.table, to_col>>)
    /\ GoTo(FkPos(ti, ci + 1))
    /\ UNCHANGED <<nops, disk, loaded, db, runner, tf, fconn, conn, rc, hashVars, explorerVars, profilerVars>>

\* _create_fk_edge_nx with no target column and no primary key in the target
\* table: "[0]" of an empty list raises IndexError, the finally clause closes
ParserFkStepIndexError ==
    /\ pc = "fk" /\ runner = "parser"
    /\ LET fk == GetForeignKeys(db, LoopTables[ti])[ci]
       IN  IsNone(fk.to) /\ GetPrimaryKeyColumns(db, fk.table) = <<>>
    /\ pc' = "failed" /\ conn' = "closed"
    /\ UNCHANGED <<G, calls, pre, nops, disk, loaded, db, runner, tf, fconn, ti, ci, rc, hashVars, explorerVars, profilerVars>>

\* leaving the with block / the finally clause
Disconnect ==
    /\ pc = "exit"
    /\ conn' = "closed"
    /\ pc' = "save"
    /\ UNCHANGED <<G, calls, pre, nops, disk, loaded, db, runner, tf, fconn, ti, ci, rc, hashVars, explorerVars, profilerVars>>

\* a variant of SaveStep that saves inside the with block, before the
\* connection is closed
SaveInsideWith ==
    /\ pc = "exit" /\ runner = "pipeline"
    /\ disk' = SaveGraphOp(G)
    /\ pc' = "done"
    /\ UNCHANGED <<G, calls, pre, nops, loaded, db, runner, tf, fconn, ti, ci, conn, rc, hashVars, explorerVars, profilerVars>>

\* SchemaPipeline.run: save_graph
SaveStep ==
    /\ pc = "save" /\ runner = "pipeline"
    /\ disk' = SaveGraphOp(G)
    /\ pc' = "done"
    /\ UNCHANGED <<G, calls, pre, nops, loaded, db, runner, tf, fconn, ti, ci, conn, rc, hashVars, explorerVars, profilerVars>>

\* parse_and_save: the node-link data of the graph is written as JSON text
ParserSaveStep ==
    /\ pc = "save" /\ runner = "parser"
    /\ disk' = JsonFile(NodeLinkData(G))
    /\ pc' = "done"
    /\ UNCHANGED <<G, calls, pre, nops, loaded, db, runner, tf, fconn, ti, ci, conn, rc, hashVars, explorerVars, profilerVars>>

\* NetworkXExplorer().load_graph(path) on the output path of a finished build
ExplorerLoadGraph ==
    /\ pc = "done" /\ q.op = "none"
    /\ LET call == ExplorerLoadGraphOp(disk)
       IN  /\ q' = [op |-> "load_graph", args |-> <<>>, raised |-> call.raised, value |-> <<>>]
           /\ XG' = IF call.raised = "none" THEN [held |-> TRUE, G |-> call.value] ELSE XG
    /\ UNCHANGED <<G, calls, pre, nops, disk, loaded, hashVars, buildVars, profilerVars>>

BuildNext ==
    \/ Connect \/ TableStep \/ ColumnStep \/ ColumnStepTypeError \/ ColumnStepProfileError
    \/ ParserRetryStep \/ ParserRetryError
    \/ PipelineFkStep \/ ParserFkStep \/ ParserFkStepIndexError
    \/ Disconnect \/ SaveStep \/ ParserSaveStep \/ ExplorerLoadGraph

SpecBuild == BuildInit /\ [][BuildNext]_vars

\* the foreign keys the source declares, table by table, in declaration order
RECURSIVE DeclaredFrom(_)
DeclaredFrom(i) ==
    IF i > Len(GetAllTables(db)) THEN <<>>
    ELSE GetForeignKeys(db, GetAllTables(db)[i]) \o DeclaredFrom(i + 1)
DeclaredFks == DeclaredFrom(1)

\* the primary-key columns of table t, by their index among its columns
PkIndexes(t) ==
    IF HasTable(db, t)
    THEN {i \in DOMAIN TableNamed(db, t).columns : TableNamed(db, t).columns[i].pk # 0}
    ELSE {}
FirstPkColumn(t) ==
    IF PkIndexes(t) = {} THEN <<>>
    ELSE TableNamed(db, t).columns[CHOOSE i \in PkIndexes(t) : \A k \in PkIndexes(t) : i <= k].name

\* the target column the claim gives a declared foreign key
TargetOf(fk) == IF fk.to # NoneV THEN fk.to[2] ELSE FirstPkColumn(fk.table)
Resolvable(fk) == fk.to # NoneV \/ PkIndexes(fk.table) # {}

ExpectedFkCall(fk) == <<"add_foreign_key", fk.src, fk.from, fk.table, TargetOf(fk)>>
ExpectedPath(fk) == StrV(ReferencePath(fk.src, fk.from, fk.table, TargetOf(fk)))

FkCalls == SelectSeq(calls, LAMBDA c : c[1] = "add_foreign_key")

PipelineDone == runner = "pipeline" /\ pc = "done"

\* calls and reference_to lists are those of the declared foreign keys fks
InsertedExactly(fks) ==
    /\ Len(FkCalls) = Len(fks)
    /\ \A i \in DOMAIN fks : FkCalls[i] = ExpectedFkCall(fks[i])
    /\ \A t \in Range(GetAllTables(db)) :
          LET own == SelectSeq(fks, LAMBDA fk : fk.src = t)
          IN  /\ Len(ListOf(G, t, "reference_to")) = Len(own)
              /\ \A i \in DOMAIN own : ListOf(G, t, "reference_to")[i] = ExpectedPath(own[i])

IsFkInsert(c) == c[1] \in {"add_foreign_key", "_create_fk_edge_nx"}
CreatesTable(c, t) == c[1] \in {"add_table_node", "_create_table_node_nx"} /\ c[2] = t
CreatesColumn(c, t, col) ==
    c[1] \in {"add_column_node", "_create_column_node_nx"} /\ c[2] = t /\ c[3] = col

FkEdgePresent(g) == \E e \in Edges(g) : DictGet(g.adj[e[1]][e[2]], "type") = StrV("FOREIGN_KEY")

\* every enumerated table and every column of it was created before call i
CreatedBefore(i) ==
    \A t \in Range(GetAllTables(db)) :
        /\ \E j \in 1..(i - 1) : CreatesTable(calls[j], t)
        /\ \A k \in DOMAIN GetColumnsInfo(db, t) :
              \E j \in 1..(i - 1) : CreatesColumn(calls[j], t, GetColumnsInfo(db, t)[k].name)

\* graph g holds the node of every enumerated table, and the node and the
\* HAS_COLUMN edge of every column of it
FirstPhaseComplete(g) ==
    \A t \in Range(GetAllTables(db)) :
        /\ HasNode(g, t)
        /\ \A k \in DOMAIN GetColumnsInfo(db, t) :
              LET id == Qualified(t, GetColumnsInfo(db, t)[k].name)
              IN  /\ HasNode(g, id) /\ HasEdge(g, t, id)
                  /\ DictGet(g.adj[t][id], "type") = StrV("HAS_COLUMN")

\* C5: in both builds no FOREIGN_KEY edge is added until the Table node, every
\* Column node and every HAS_COLUMN edge of every enumerated table have been
\* created: every foreign-key insertion comes after all of those creations,
\* the graph that receives its first FOREIGN_KEY edge already holds them all,
\* and a FOREIGN_KEY edge only comes from a foreign-key insertion.
C5_TwoPhases ==
    /\ \A i \in DOMAIN calls : IsFkInsert(calls[i]) => CreatedBefore(i)
    /\ FkEdgePresent(G) => \E i \in DOMAIN calls : IsFkInsert(calls[i])
    /\ (FkEdgePresent(G) /\ ~FkEdgePresent(pre)) => FirstPhaseComplete(pre)

\* C5 witness: a foreign-key edge from the first table to one enumerated after it
C5_Witness ==
    /\ FkEdgePresent(G)
    /\ calls # <<>> /\ IsFkInsert(LastCall)
    /\ Len(GetAllTables(db)) >= 2
    /\ LastCall[2] = GetAllTables(db)[1]
    /\ LastCall[4] = GetAllTables(db)[2]
    /\ HasEdge(G, LastCall[2], LastCall[4])

-----------------------------------------------------------------------------
(* NetworkXExplorer: queries over the graph it holds.                      *)

\* a variant of UndirectedNeighbors that follows edges forwards only
DirectedNeighbors(g, n) == {m \in DOMAIN g.node : HasEdge(g, n, m)}

\* G.to_undirected(): u and v are adjacent when an edge joins them either way
UndirectedNeighbors(g, n) == {m \in DOMAIN g.node : HasEdge(g, n, m) \/ HasEdge(g, m, n)}

\* breadth-first levels of nx.single_source_shortest_path_length: seen is the
\* set of <<node, distance>> found so far, thislevel the nodes at distance level
RECURSIVE BfsLevels(_, _, _, _, _)
BfsLevels(g, seen, thislevel, level, cutoff) ==
    IF thislevel = {} \/ ~(cutoff > level) THEN seen
    ELSE LET found == {p[1] : p \in seen}
             nextlevel == (UNION {UndirectedNeighbors(g, v) : v \in thislevel}) \ found
         IN  BfsLevels(g, seen \cup {<<w, level + 1>> : w \in nextlevel}, nextlevel, level + 1, cutoff)

\* nx.single_source_shortest_path_length(undirected_G, source, cutoff)
PathLengths(g, source, cutoff) == BfsLevels(g, {<<source, 0>>}, {source}, 0, cutoff)

\* get_neighbors on a graph that holds table_name; the list is given as the
\* set of its members (a dict's keys: no member twice)
GetNeighborsOp(g, table_name, hop) ==
    {p[1] : p \in {x \in PathLengths(g, table_name, hop) : x[2] > 0 /\ NodeTypeIs(g, x[1], "Table")}}

\* the walks of k steps from u to target
RECURSIVE WalksOfLength(_, _, _, _)
WalksOfLength(g, u, target, k) ==
    IF k = 0 THEN (IF u = target THEN {<<u>>} ELSE {})
    ELSE UNION {{<<u>> \o w : w \in WalksOfLength(g, m, target, k - 1)} :
                m \in UndirectedNeighbors(g, u)}

\* nx.shortest_path(undirected_G, source, target): the exception it raises,
\* or any one of the shortest paths
ShortestPathOutcomes(g, source, target) ==
    IF ~HasNode(g, source) \/ ~HasNode(g, target)
    THEN {[exc |-> "NodeNotFound", path |-> <<>>]}
    ELSE LET lengths == PathLengths(g, source, Cardinality(DOMAIN g.node))
             hits == {p \in lengths : p[1] = target}
         IN  IF hits = {} THEN {[exc |-> "NetworkXNoPath", path |-> <<>>]}
             ELSE {[exc |-> "none", path |-> w] :
                      w \in WalksOfLength(g, source, target, (CHOOSE p \in hits : TRUE)[2])}

\* a variant of Caught with the second except clause removed
CaughtNoPathOnly(exc) == exc = "NetworkXNoPath"

\* the except clauses of get_shortest_path
Caught(exc) == exc \in {"NetworkXNoPath", "NodeNotFound"}

\* the result of a query: the exception that leaves it, or its value
Raised(op, args, exc) == [op |-> op, args |-> args, raised |-> exc, value |-> <<>>]
Returned(op, args, value) == [op |-> op, args |-> args, raised |-> "none", value |-> value]

\* the names asked about: tables, a column node, and a name no graph holds
ExplorerTables == {NameA, NameB, NameC}
QueryNames == ExplorerTables \cup {NameAdotB, <<"q">>}

\* pairs of tables joined by a foreign key, at most MaxLinks of them
LinkSets == {L \in SUBSET (ExplorerTables \X ExplorerTables) : Cardinality(L) <= MaxLinks}

\* the builder calls of a graph with tables tabs (each with a column b), the
\* table "a.b" when dotted, and the foreign keys links
ExplorerScript(tabs, dotted, links) ==
    LET ts == SetToSeq(tabs)
        ls == SetToSeq(links)
        nodes == [i \in 1..(2 * Len(ts)) |->
                     IF i % 2 = 1 THEN <<"add_table_node", ts[(i + 1) \div 2], EmptyDict>>
                     ELSE <<"add_column_node", ts[i \div 2], NameB, FALSE, FALSE, EmptyDict>>]
        extra == IF dotted THEN << <<"add_table_node", NameAdotB, EmptyDict>> >> ELSE <<>>
        fks == [i \in DOMAIN ls |-> <<"add_foreign_key", ls[i][1], NameB, ls[i][2], NameB>>]
    IN  nodes \o extra \o fks

ExplorerGraphs ==
    {ApplyCalls(EmptyGraph, ExplorerScript(tabs, dotted, links)) :
        tabs \in (SUBSET ExplorerTables) \ {{}}, dotted \in BOOLEAN, links \in LinkSets}

\* self.G.to_undirected(): a new graph with the nodes of g and each edge of g
\* in both directions.  Where g has both u -> v and v -> u the new edge keeps
\* the attributes of one of the two; no query reads them.
ToUndirected(g) ==
    [node |-> g.node,
     adj |-> [n \in DOMAIN g.node |->
                [m \in UndirectedNeighbors(g, n) |->
                    LET first == CHOOSE x \in {n, m} : HasEdge(g, x, CHOOSE y \in {n, m} : y # x \/ n = m)
                        other == CHOOSE y \in {n, m} : y # first \/ n = m
                    IN  g.adj[first][other]]]]

\* a variant of the queries that binds the graph they derive to self.G
DerivedGraph(g, derived) == derived

\* the graph self.G names after a query: the queries bind the graphs they
\* derive from it (to_undirected(), subgraph(...)) to local names only
HeldGraph(g, derived) == g

\* the explorer after a query that derived a graph from the one it holds
AfterQuery(derived) == IF XG.held THEN [XG EXCEPT !.G = HeldGraph(XG.G, derived)] ELSE XG

ExplorerInit ==
    /\ XG \in {NoGraph} \cup {[held |-> TRUE, G |-> g] : g \in ExplorerGraphs}
    /\ q = NoQuery
    /\ HashIdle /\ LoaderIdle /\ BuildIdle /\ ProfilerIdle

\* Each behaviour follows one query on a newly constructed explorer: a query
\* reads G (through to_undirected and subgraph copies) and never writes it, so a
\* later query would see the graph the first one saw.
GetNeighbors ==
    \E table_name \in QueryNames, hop \in 0..MaxHop :
        /\ q.op = "none"
        /\ q' = IF ~XG.held THEN Raised("get_neighbors", <<table_name, hop>>, "AttributeError")
                ELSE IF ~HasNode(XG.G, table_name)
                     THEN Raised("get_neighbors", <<table_name, hop>>, "NodeNotFound")
                ELSE Returned("get_neighbors", <<table_name, hop>>,
                              GetNeighborsOp(XG.G, table_name, hop))
        /\ XG' = AfterQuery(ToUndirected(XG.G))
        /\ UNCHANGED <<hashVars, loaderVars, buildVars, profilerVars>>

GetShortestPath ==
    \E source_table \in QueryNames, target_table \in QueryNames :
        /\ q.op = "none"
        /\ IF ~XG.held
           THEN q' = Raised("get_shortest_path", <<source_table, target_table>>, "AttributeError")
           ELSE \E out \in ShortestPathOutcomes(XG.G, source_table, target_table) :
                   q' = IF out.exc = "none"
                        THEN Returned("get_shortest_path", <<source_table, target_table>>,
                                      SelectSeq(out.path, LAMBDA node : NodeTypeIs(XG.G, node, "Table")))
                        ELSE IF Caught(out.exc)
                             THEN Returned("get_shortest_path", <<source_table, target_table>>, <<>>)
                        ELSE Raised("get_shortest_path", <<source_table, target_table>>, out.exc)
        /\ XG' = AfterQuery(ToUndirected(XG.G))
        /\ UNCHANGED <<hashVars, loaderVars, buildVars, profilerVars>>

\* a variant of Subgraph that keeps the whole graph
WholeGraph(g, names) == g

\* G.subgraph(names): the nodes of g among names, and the edges between them
Subgraph(g, names) ==
    LET kept == names \cap DOMAIN g.node
    IN  [node |-> [n \in kept |-> g.node[n]],
         adj |-> [n \in kept |-> [m \in kept \cap DOMAIN g.adj[n] |-> g.adj[n][m]]]]

\* nx.is_connected: NetworkXPointlessConcept on a graph without nodes, else
\* whether a breadth-first search from one node finds every node
IsConnectedOutcome(g) ==
    IF DOMAIN g.node = {} THEN [exc |-> "NetworkXPointlessConcept", value |-> FALSE]
    ELSE LET start == CHOOSE n \in DOMAIN g.node : TRUE
             found == {p[1] : p \in PathLengths(g, start, Cardinality(DOMAIN g.node))}
         IN  [exc |-> "none", value |-> (found = DOMAIN g.node)]

\* the lists of names given to is_subgraph_connected
NameLists == UNION {[1..n -> QueryNames] : n \in 0..2}

IsSubgraphConnected ==
    \E table_names \in NameLists :
        /\ q.op = "none"
        /\ q' = IF table_names = <<>>
                THEN Returned("is_subgraph_connected", <<table_names>>, FALSE)
                ELSE IF ~XG.held
                     THEN Raised("is_subgraph_connected", <<table_names>>, "AttributeError")
                ELSE LET out == IsConnectedOutcome(Subgraph(XG.G, Range(table_names)))
                     IN  IF out.exc = "none"
                         THEN Returned("is_subgraph_connected", <<table_names>>, out.value)
                         ELSE Raised("is_subgraph_connected", <<table_names>>, out.exc)
        /\ XG' = IF table_names = <<>> THEN XG
                 ELSE AfterQuery(ToUndirected(Subgraph(XG.G, Range(table_names))))
        /\ UNCHANGED <<hashVars, loaderVars, buildVars, profilerVars>>

\* G.successors(n)
Successors(g, n) == {m \in DOMAIN g.node : HasEdge(g, n, m)}

\* the successors of table_name over HAS_COLUMN edges
HasColumnSuccessors(g, table_name) ==
    {n \in Successors(g, table_name) :
        DictGet(g.adj[table_name][n], "type") = StrV("HAS_COLUMN")}

\* get_columns_for_table on a graph: KeyError when a successor has no name,
\* else the dict from each successor's name to its attributes (a name shared
\* by two successors keeps one of them)
GetColumnsOutcomes(g, table_name) ==
    IF ~HasNode(g, table_name) THEN {[exc |-> "none", value |-> EmptyDict]}
    ELSE LET succ == HasColumnSuccessors(g, table_name)
         IN  IF \E n \in succ : "name" \notin DOMAIN g.node[n]
             THEN {[exc |-> "KeyError", value |-> EmptyDict]}
             ELSE LET keys == {g.node[n]["name"] : n \in succ}
                  IN  {[exc |-> "none", value |-> [k \in keys |-> g.node[pick[k]]]] :
                          pick \in {f \in [keys -> succ] : \A k \in keys : g.node[f[k]]["name"] = k}}

GetColumnsForTable ==
    \E table_name \in QueryNames :
        /\ q.op = "none"
        /\ IF ~XG.held
           THEN q' = Raised("get_columns_for_table", <<table_name>>, "TypeError")
           ELSE \E out \in GetColumnsOutcomes(XG.G, table_name) :
                   q' = IF out.exc = "none"
                        THEN Returned("get_columns_for_table", <<table_name>>, out.value)
                        ELSE Raised("get_columns_for_table", <<table_name>>, out.exc)
        /\ UNCHANGED <<XG, hashVars, loaderVars, buildVars, profilerVars>>

\* get_table_info: the attributes of the node, {} for a name the graph lacks
GetTableInfo ==
    \E table_name \in QueryNames :
        /\ q.op = "none"
        /\ q' = IF ~XG.held THEN Raised("get_table_info", <<table_name>>, "AttributeError")
                ELSE IF ~HasNode(XG.G, table_name)
                     THEN Returned("get_table_info", <<table_name>>, EmptyDict)
                ELSE Returned("get_table_info", <<table_name>>, XG.G.node[table_name])
        /\ UNCHANGED <<XG, hashVars, loaderVars, buildVars, profilerVars>>

ExplorerNext ==
    \/ GetNeighbors \/ GetShortestPath \/ IsSubgraphConnected \/ GetColumnsForTable
    \/ GetTableInfo

SpecExplorer == ExplorerInit /\ [][ExplorerNext]_vars

\* the nodes within k undirected steps of node n
RECURSIVE ReachWithin(_, _, _)
ReachWithin(g, n, k) ==
    IF k = 0 THEN {n}
    ELSE LET R == ReachWithin(g, n, k - 1)
         IN  R \cup {m \in DOMAIN g.node : \E r \in R : HasEdge(g, r, m) \/ HasEdge(g, m, r)}

\* C9: for a table T of the graph and a hop >= 0, get_neighbors(T, hop)
\* returns exactly the Table-typed nodes at undirected distance 1..hop from T;
\* never T itself, never a Column-typed node.
C9_NeighborsExact ==
    (/\ q.op = "get_neighbors" /\ XG.held
     /\ HasNode(XG.G, q.args[1]) /\ NodeTypeIs(XG.G, q.args[1], "Table"))
    => /\ q.raised = "none"
       /\ q.value = {n \in ReachWithin(XG.G, q.args[1], q.args[2]) :
                        n # q.args[1] /\ NodeTypeIs(XG.G, n, "Table")}
       /\ q.args[1] \notin q.value
       /\ \A n \in q.value : ~NodeTypeIs(XG.G, n, "Column")

\* C9 witness: a two-hop query that returns a table two steps away, one step
\* of them against the direction of its foreign key, and leaves out a column
C9_Witness ==
    /\ q.op = "get_neighbors" /\ XG.held /\ q.raised = "none" /\ q.args[2] = 2
    /\ HasNode(XG.G, q.args[1]) /\ NodeTypeIs(XG.G, q.args[1], "Table")
    /\ \E n \in q.value : n \notin ReachWithin(XG.G, q.args[1], 1)
    /\ \E n \in q.value : HasEdge(XG.G, n, q.args[1]) /\ ~HasEdge(XG.G, q.args[1], n)
    /\ \E c \in ReachWithin(XG.G, q.args[1], 2) : NodeTypeIs(XG.G, c, "Column") /\ c \notin q.value

\* C10: on an explorer that holds a graph, get_shortest_path never raises, and
\* returns the empty sequence when an endpoint is absent from the graph or no
\* undirected path joins the two.
C10_NeverRaises ==
    (q.op = "get_shortest_path" /\ XG.held)
    => /\ q.raised = "none"
       /\ (\/ ~HasNode(XG.G, q.args[1]) \/ ~HasNode(XG.G, q.args[2])
           \/ q.args[2] \notin ReachWithin(XG.G, q.args[1], Cardinality(DOMAIN XG.G.node)))
          => q.value = <<>>

\* C10 witness: a query whose source is a table of the graph and whose target
\* is absent from it
C10_Witness ==
    /\ q.op = "get_shortest_path" /\ XG.held
    /\ HasNode(XG.G, q.args[1]) /\ NodeTypeIs(XG.G, q.args[1], "Table")
    /\ ~HasNode(XG.G, q.args[2])
    /\ q.raised = "none" /\ q.value = <<>>

\* u and v are joined by a FOREIGN_KEY edge, in either direction
FkJoined(g, u, v) == FkEdgesBetween(g, u, v) # {} \/ FkEdgesBetween(g, v, u) # {}

\* the least k with v within k undirected steps of u (v is reachable from u)
UndirectedDistance(g, u, v) ==
    CHOOSE k \in 0..Cardinality(DOMAIN g.node) :
        /\ v \in ReachWithin(g, u, k)
        /\ \A j \in 0..(k - 1) : v \notin ReachWithin(g, u, j)

\* C11 as stated: for two tables joined by some undirected path,
\* get_shortest_path returns a sequence of table names that starts at source,
\* ends at target, has every two consecutive tables joined by a FOREIGN_KEY
\* edge in either direction, and has minimal length.
C11_PathIsForeignKeyChain ==
    (/\ q.op = "get_shortest_path" /\ XG.held
     /\ HasNode(XG.G, q.args[1]) /\ NodeTypeIs(XG.G, q.args[1], "Table")
     /\ HasNode(XG.G, q.args[2]) /\ NodeTypeIs(XG.G, q.args[2], "Table")
     /\ q.args[2] \in ReachWithin(XG.G, q.args[1], Cardinality(DOMAIN XG.G.node)))
    => /\ q.raised = "none" /\ q.value # <<>>
       /\ q.value[1] = q.args[1] /\ q.value[Len(q.value)] = q.args[2]
       /\ \A i \in 1..(Len(q.value) - 1) : FkJoined(XG.G, q.value[i], q.value[i + 1])
       /\ Len(q.value) = UndirectedDistance(XG.G, q.args[1], q.args[2]) + 1

\* the given names split into two non-empty parts with no edge between them
SplitsApart(g, names) ==
    \E P \in (SUBSET names) \ {{}, names} :
        \A u \in P, v \in names \ P : ~HasEdge(g, u, v) /\ ~HasEdge(g, v, u)

\* C12: is_subgraph_connected returns False for an empty input, True for a
\* single existing table, and for given nodes of the graph True exactly when
\* the subgraph induced on them, direction ignored, is one connected
\* component: two given tables joined only through a table outside the input
\* are not connected.
C12_InducedConnectivity ==
    /\ (q.op = "is_subgraph_connected" /\ q.args[1] = <<>>)
          => (q.raised = "none" /\ q.value = FALSE)
    /\ (/\ q.op = "is_subgraph_connected" /\ q.args[1] # <<>> /\ XG.held
        /\ Range(q.args[1]) \subseteq DOMAIN XG.G.node)
          => /\ q.raised = "none"
             /\ q.value = ~SplitsApart(XG.G, Range(q.args[1]))
             /\ Cardinality(Range(q.args[1])) = 1 => q.value = TRUE

\* C12 witness: two tables that an undirected path through a third node joins,
\* reported as not connected
C12_Witness ==
    /\ q.op = "is_subgraph_connected" /\ XG.held /\ q.raised = "none"
    /\ Len(q.args[1]) = 2 /\ q.args[1][1] # q.args[1][2]
    /\ \A i \in 1..2 : HasNode(XG.G, q.args[1][i]) /\ NodeTypeIs(XG.G, q.args[1][i], "Table")
    /\ q.args[1][2] \in ReachWithin(XG.G, q.args[1][1], 2)
    /\ q.value = FALSE

\* the column nodes of table t: Column-typed nodes that belong to t
ColumnNodesOf(g, t) ==
    {n \in DOMAIN g.node :
        NodeTypeIs(g, n, "Column") /\ DictGet(g.node[n], "belongs_to") = StrV(t)}

\* C13 as stated: get_columns_for_table(name) returns a mapping with one entry
\* per column of the table, keyed by column name and holding that column
\* node's attribute bundle, following only HAS_COLUMN edges from the table
\* node; a table reached by a FOREIGN_KEY edge is never an entry, and an
\* absent table yields an empty mapping.
C13_OneEntryPerColumn ==
    (q.op = "get_columns_for_table" /\ XG.held)
    => /\ q.raised = "none"
       /\ ~HasNode(XG.G, q.args[1]) => q.value = EmptyDict
       /\ (HasNode(XG.G, q.args[1]) /\ NodeTypeIs(XG.G, q.args[1], "Table"))
             => LET cols == ColumnNodesOf(XG.G, q.args[1])
                IN  /\ DOMAIN q.value = {XG.G.node[n]["name"] : n \in cols}
                    /\ Cardinality(DOMAIN q.value) = Cardinality(cols)
                    /\ \A n \in cols : q.value[XG.G.node[n]["name"]] = XG.G.node[n]
                    /\ \A k \in DOMAIN q.value : DictGet(q.value[k], "type") # StrV("Table")

-----------------------------------------------------------------------------
(* Specification SpecProfiler: one call of DataProfiler.profile on a list  *)
(* of at most MaxValues values of a column of some declared type and name. *)

ADate == <<"2", "0", "2", "0", "-", "0", "3", "-", "0", "1">>
ADateTime ==
    <<"2", "0", "2", "0", "-", "0", "2", "-", "2", "8", " ",
      "1", "2", ":", "0", "0", ":", "0", "0">>

AnIsoTime ==
    <<"2", "0", "2", "0", "-", "0", "3", "-", "0", "2", "T",
      "1", "2", ":", "0", "0", ":", "0", "0">>

\* the values a column may hold: NULL, a blank text, integers, and three texts
\* that read as a date, as a date with a time, and as an ISO-8601 date and
\* time with the designator T
ProfilerValues ==
    {NoneV, StrV(<<" ">>), IntV(1), IntV(2), IntV(3), StrV(ADate), StrV(ADateTime),
     StrV(AnIsoTime)}

ValueLists == UNION {[1..n -> ProfilerValues] : n \in 0..MaxValues}

\* the declared type and the name of the column
ProfilerColumns ==
    {[data_type |-> "integer", column_name |-> <<"I", "d">>],
     [data_type |-> "integer", column_name |-> <<"s", "c">>],
     [data_type |-> "JSON", column_name |-> <<"s", "c">>],
     [data_type |-> "datetime(6)", column_name |-> <<"s", "c">>],
     [data_type |-> "BLOB", column_name |-> <<"s", "c">>]}

ProfilerInit ==
    /\ pin \in {[op |-> "profile", all_values |-> l, data_type |-> c.data_type,
                 column_name |-> c.column_name] : l \in ValueLists, c \in ProfilerColumns}
    /\ pout = NoCall
    /\ HashIdle /\ LoaderIdle /\ BuildIdle /\ ExplorerIdle

CallProfile ==
    /\ pin.op = "profile" /\ pout.op = "none"
    /\ \E picked \in SamplePicks(NonNullValues(pin.all_values)) :
          pout' = [op |-> "profile"]
                     @@ Profile(pin.all_values, pin.data_type, pin.column_name, picked)
    /\ UNCHANGED <<pin, hashVars, loaderVars, buildVars, explorerVars>>

ProfilerNext == CallProfile

SpecProfiler == ProfilerInit /\ [][ProfilerNext]_vars

\* the positions of a list that hold None or a text of nothing but white space
NullPositions(values) ==
    {i \in DOMAIN values :
        \/ values[i] = NoneV
        \/ (values[i][1] = "str" /\ \A k \in DOMAIN values[i][2] : values[i][2][k] = " ")}

IntsOf(values) == {values[i][2] : i \in {k \in DOMAIN values : values[k][1] = "int"}}
Occurrences(values, n) == Cardinality({i \in DOMAIN values : values[i] = <<"int", n>>})
NamesAnId(name) ==
    \E i \in 1..(Len(name) - 1) : name[i] \in {"i", "I"} /\ name[i + 1] \in {"d", "D"}
OneTwoTwoThree == <<IntV(1), IntV(2), IntV(2), IntV(3)>>

\* C16: for a numeric column, numeric_range is [min, max] of the numeric
\* values and null when there are none; a column whose name contains "id" in
\* any case gets neither numeric_mode nor numeric_mean; any other column gets
\* as numeric_mode exactly the values of the highest frequency, and no
\* numeric_mode at all when no value occurs twice.  The values [1,2,2,3] give
\* the range [1,3] without a mode under an id name, and the mode [2] otherwise.
C16_RangeModeMean ==
    (pout.op = "profile" /\ pin.data_type = "integer")
    => LET ints == IntsOf(pin.all_values)
           highest == Max({Occurrences(pin.all_values, n) : n \in ints})
           bundle == pout.value
       IN  /\ pout.raised = "none"
           /\ ints = {} => bundle["numeric_range"] = NoneV
           /\ ints # {} =>
                 /\ bundle["numeric_range"][1] = "list"
                 /\ Len(bundle["numeric_range"][2]) = 2
                 /\ bundle["numeric_range"][2][1] = IntV(Minimum(ints))
                 /\ bundle["numeric_range"][2][2] = IntV(Max(ints))
           /\ NamesAnId(pin.column_name) =>
                 /\ "numeric_mode" \notin DOMAIN bundle
                 /\ "numeric_mean" \notin DOMAIN bundle
           /\ (~NamesAnId(pin.column_name) /\ (ints = {} \/ highest = 1)) =>
                 "numeric_mode" \notin DOMAIN bundle
           /\ (~NamesAnId(pin.column_name) /\ ints # {} /\ highest > 1) =>
                 /\ "numeric_mode" \in DOMAIN bundle
                 /\ Range(bundle["numeric_mode"][2])
                       = {IntV(n) : n \in {k \in ints : Occurrences(pin.all_values, k) = highest}}
                 /\ Len(bundle["numeric_mode"][2])
                       = Cardinality(Range(bundle["numeric_mode"][2]))
           /\ (pin.all_values = OneTwoTwoThree /\ NamesAnId(pin.column_name)) =>
                 bundle["numeric_range"] = ListV(<<IntV(1), IntV(3)>>)
           /\ (pin.all_values = OneTwoTwoThree /\ ~NamesAnId(pin.column_name)) =>
                 /\ bundle["numeric_mode"] = ListV(<<IntV(2)>>)
                 /\ bundle["numeric_mean"] = FloatV(2, 1)

\* the values [1,2,2,3] of a column without "id" in its name have been profiled
C16_Witness ==
    /\ pout.op = "profile" /\ pout.raised = "none"
    /\ pin.data_type = "integer" /\ ~NamesAnId(pin.column_name)
    /\ pin.all_values = OneTwoTwoThree
    /\ "numeric_mode" \in DOMAIN pout.value

\* the call was made for a time-typed column and returned
TimeProfiled ==
    /\ pout.op = "profile" /\ pout.raised = "none"
    /\ BaseDataType(pin.data_type) \in time_types

\* C26: for a time-typed column time_span is null exactly when earliest_time
\* and latest_time are null, and otherwise it is the whole-day difference
\* between the values reported as earliest_time and latest_time.
C26_TimeSpanOfReportedBounds ==
    TimeProfiled =>
        LET time_span == DictGet(pout.value, "time_span")
            earliest_time == DictGet(pout.value, "earliest_time")
            latest_time == DictGet(pout.value, "latest_time")
        IN  /\ IsNone(time_span) <=> IsNone(earliest_time)
            /\ IsNone(time_span) <=> IsNone(latest_time)
            /\ ~IsNone(time_span)
                  => time_span = StrV(DecimalDigits(DaysBetween(ConvertDateString(earliest_time),
                                                                ConvertDateString(latest_time)))
                                      \o <<" ", "d", "a", "y", "s">>)

\* C19: profile returns a bundle of statistics for every list of values and
\* every declared type, and never raises: also for values whose runtime type
\* is not the declared one, and for time values that parse to different kinds.
C19_ProfileNeverRaises ==
    pout.op = "profile" => (pout.raised = "none" /\ "null_count" \in DOMAIN pout.value)

-----------------------------------------------------------------------------
(* Specification SpecWords: one call of _get_word_frequency(values) on a   *)
(* list of texts.  The outcome depends on the list through Counter(values) *)
(* only, so the lists of the model are laid out by their counts: up to     *)
(* MaxWords distinct words in the order of their first occurrence, each    *)
(* once or twice, one of the first two possibly once more.                 *)

Letters == <<"a", "b", "c", "d", "e", "f", "g", "h", "i", "j", "k", "l", "m", "n">>

\* the i-th word: one letter, or a text of 21 (i odd) or 20 (i even) characters
Word(i, long) ==
    IF long THEN StrV(<<Letters[i]>> \o [k \in 1..(IF i % 2 = 1 THEN 20 ELSE 19) |-> "x"])
    ELSE StrV(<<Letters[i]>>)

WordCounts ==
    UNION {{[i \in 1..n |-> IF i = extra THEN counts[i] + 1 ELSE counts[i]] :
               counts \in [1..n -> {1, 2}], extra \in 0..2} : n \in 0..MaxWords}

\* the list: every word once, then the words that occur twice, then thrice
WordList(counts, long) ==
    LET words == [i \in DOMAIN counts |-> Word(i, long)]
        AtLeast(c) == SelectSeq([i \in DOMAIN counts |-> <<i, counts[i]>>],
                                LAMBDA e : e[2] >= c)
        Round(c) == [k \in DOMAIN AtLeast(c) |-> words[AtLeast(c)[k][1]]]
    IN  Round(1) \o Round(2) \o Round(3)

WordsInit ==
    /\ pin \in {[op |-> "_get_word_frequency", values |-> WordList(counts, long)] :
                   counts \in WordCounts, long \in BOOLEAN}
    /\ pout = NoCall
    /\ HashIdle /\ LoaderIdle /\ BuildIdle /\ ExplorerIdle

CallGetWordFrequency ==
    /\ pin.op = "_get_word_frequency" /\ pout.op = "none"
    /\ pout' = [op |-> "_get_word_frequency"] @@ Return(GetWordFrequency(pin.values))
    /\ UNCHANGED <<pin, hashVars, loaderVars, buildVars, explorerVars>>

WordsNext == CallGetWordFrequency

SpecWords == WordsInit /\ [][WordsNext]_vars

\* C15: the table returned by _get_word_frequency has at most 10 entries, at
\* most 3 of them of frequency 1, each of those a word of at most 20
\* characters; the entries of frequency above 1 come first, in non-increasing
\* order of frequency; every entry is a word of the list with its count.
C15_WordFrequencyShape ==
    pout.op = "_get_word_frequency"
    => LET table == pout.value
           ones == {i \in DOMAIN table : table[i][2] = 1}
       IN  /\ pout.raised = "none"
           /\ Len(table) <= 10
           /\ Cardinality(ones) <= 3
           /\ \A i \in ones : Len(table[i][1][2]) <= 20
           /\ \A i, j \in DOMAIN table :
                 (i < j /\ table[j][2] > 1) => table[i][2] >= table[j][2]
           /\ \A i \in DOMAIN table :
                 table[i][2] = Cardinality({k \in DOMAIN pin.values : pin.values[k] = table[i][1]})
           /\ \A i, j \in DOMAIN table : table[i][1] = table[j][1] => i = j

\* a list with more than 10 distinct words, more than 3 of them occurring once
\* and one of these longer than 20 characters, gave a full table of 10 entries
\* that ends with words of frequency 1
C15_Witness ==
    /\ pout.op = "_get_word_frequency"
    /\ Len(pout.value) = 10 /\ pout.value[10][2] = 1 /\ pout.value[1][2] = 3
    /\ Cardinality({pin.values[k] : k \in DOMAIN pin.values}) > 10
    /\ Cardinality({k \in DOMAIN pin.values :
          \A l \in DOMAIN pin.values : pin.values[l] = pin.values[k] => l = k}) > 3
    /\ \E k \in DOMAIN pin.values :
          /\ Len(pin.values[k][2]) > 20
          /\ \A l \in DOMAIN pin.values : pin.values[l] = pin.values[k] => l = k

-----------------------------------------------------------------------------
(* Specification SpecFetch: one call of SQLiteHandler.fetch_column_data on *)
(* a connected handler, for a column of at most MaxRows rows.              *)

StoredValues ==
    {NullS, IntegerS(1), TextS(<<"a">>), TextS(<<"a", "FF">>), TextS(<<"C3", "A9">>),
     BlobS(<<"FF", "a">>)}

StoredRows == UNION {[1..n -> StoredValues] : n \in 0..MaxRows}

Limits == {NoneV, IntV(1), IntV(RowLimit)}

\* the ways SQLite itself may fail an execute
EngineOutcomes == {"ok", "OperationalError", "DatabaseError"}

FetchInit ==
    /\ pin \in {[op |-> "fetch_column_data", rows |-> rows, limit |-> limit] :
                   rows \in StoredRows, limit \in Limits}
    /\ pout = NoCall
    /\ db = <<>> /\ runner = "none" /\ pc = "idle" /\ ti = 0 /\ ci = 0 /\ rc = NoneV
    /\ conn = "open" /\ tf = "str" /\ fconn = "none"
    /\ HashIdle /\ LoaderIdle /\ ExplorerIdle

CallFetchColumnData ==
    /\ pin.op = "fetch_column_data" /\ pout.op = "none" /\ conn = "open"
    /\ \E first \in EngineOutcomes, retry \in EngineOutcomes :
          LET call == FetchColumnData(pin.rows, pin.limit, tf, first, retry)
          IN  /\ pout' = [op |-> "fetch_column_data", first |-> first,
                          retry |-> IF call.retried THEN retry ELSE "none",
                          retried |-> call.retried] @@ call.outcome
              /\ tf' = call.text_factory
    /\ UNCHANGED <<pin, db, runner, pc, ti, ci, conn, rc, fconn,
                   hashVars, loaderVars, explorerVars>>

FetchNext == CallFetchColumnData

SpecFetch == FetchInit /\ [][FetchNext]_vars

\* the rows the query of the call selects
SelectedRows ==
    IF pin.limit = NoneV \/ pin.limit[2] >= Len(pin.rows) THEN pin.rows
    ELSE [i \in 1..pin.limit[2] |-> pin.rows[i]]

\* a TEXT that is not valid UTF-8: of the bytes of the model only "FF" is invalid
HoldsInvalidUtf8(stored) == stored[1] = "TEXT" /\ \E k \in DOMAIN stored[2] : stored[2][k] = "FF"

\* the value expected for a stored value after a byte-mode read: texts and
\* blobs decoded with the invalid bytes dropped
ValidPart(b) ==
    CASE b = <<"a">> -> <<"a">>
      [] b = <<"a", "FF">> -> <<"a">>
      [] b = <<"FF", "a">> -> <<"a">>
      [] b = <<"C3", "A9">> -> <<"e'">>
ExpectedAfterRetry(stored) ==
    CASE stored[1] = "NULL" -> <<"None">>
      [] stored[1] = "INTEGER" -> <<"int", stored[2]>>
      [] OTHER -> <<"str", ValidPart(stored[2])>>

\* C18: when the read of a column fails because a text cannot be decoded,
\* fetch_column_data reads the same rows again in byte mode and returns them
\* with each bytes value decoded as UTF-8 without its invalid bytes; when the
\* second read fails too it returns the empty list; it raises in neither case.
C18_DecodeFailureRecovered ==
    (/\ pout.op = "fetch_column_data" /\ pout.first = "ok"
     /\ \E i \in DOMAIN SelectedRows : HoldsInvalidUtf8(SelectedRows[i]))
    => /\ pout.raised = "none"
       /\ pout.retried
       /\ pout.retry = "ok" =>
             pout.value = [i \in DOMAIN SelectedRows |-> ExpectedAfterRetry(SelectedRows[i])]
       /\ pout.retry # "ok" => pout.value = <<>>

\* a column with an undecodable text next to other values has been read by
\* the byte-mode retry
C18_Witness ==
    /\ pout.op = "fetch_column_data" /\ pout.first = "ok" /\ pout.retried /\ pout.retry = "ok"
    /\ pout.raised = "none" /\ Len(pout.value) >= 2
    /\ \E i \in DOMAIN SelectedRows :
          HoldsInvalidUtf8(SelectedRows[i]) /\ pout.value[i] = <<"str", <<"a">>>>
    /\ \E i \in DOMAIN SelectedRows : SelectedRows[i][1] = "BLOB"

\* C28: whichever way a call of fetch_column_data goes (the first read
\* succeeds, the byte-mode retry succeeds, the byte-mode retry fails, the first
\* read raises another exception), the text_factory of the connection after
\* the call is the one it had before the call.
C28_TextFactoryRestored ==
    [][pout'.op = "fetch_column_data" => tf' = tf]_vars

\* a call whose byte-mode retry failed has returned the empty list and left
\* the connection decoding texts as str
C28_Witness ==
    /\ pout.op = "fetch_column_data" /\ pout.first = "ok" /\ pout.retried
    /\ pout.retry = "DatabaseError" /\ pout.raised = "none" /\ pout.value = <<>>
    /\ tf = "str"

-----------------------------------------------------------------------------
\* The explorer's graph under its queries (SpecExplorer)

\* C29: no call of get_table_info, get_columns_for_table, get_neighbors,
\* get_shortest_path or is_subgraph_connected, whatever its arguments (names
\* absent from the graph included) and however it ends, changes the nodes,
\* the edges or the attributes of the graph the explorer holds.
C29_QueriesReadOnly ==
    [][q'.op \in {"get_table_info", "get_columns_for_table", "get_neighbors",
                  "get_shortest_path", "is_subgraph_connected"} => XG' = XG]_vars

\* is_subgraph_connected has answered for a proper part of the graph and a
\* name the graph lacks, and the explorer holds a graph with a foreign key
C29_Witness ==
    /\ q.op = "is_subgraph_connected" /\ XG.held /\ q.raised = "none"
    /\ \E i \in DOMAIN q.args[1] : ~HasNode(XG.G, q.args[1][i])
    /\ \E i \in DOMAIN q.args[1] : HasNode(XG.G, q.args[1][i])
    /\ \E n \in DOMAIN XG.G.node : n \notin Range(q.args[1])
    /\ \E u \in DOMAIN XG.G.node, v \in DOMAIN XG.G.node : FkJoined(XG.G, u, v)

-----------------------------------------------------------------------------
\* Connections and row counts of a build (SpecBuild)

\* the build has been left, by return or by exception
BuildLeft == pc \in {"save", "done", "failed"}

\* C17: once a build has been left, by return or by exception, every
\* connection it opened is closed: the connection of SQLiteHandler or of
\* _build_graph_in_memory, and the extra connection of the parser's
\* byte-mode retry.
C17_ConnectionsReleased == BuildLeft => (conn = "closed" /\ fconn # "open")

\* C20: a row count of None is not fatal to SchemaPipeline.run: the run never
\* fails at a table whose row count is None, and the table's node carries the
\* null row_count.
C20_NullRowCountNotFatal ==
    (runner = "pipeline" /\ pc \in {"column", "failed"} /\ IsNone(rc))
        => /\ pc # "failed"
           /\ HasNode(G, LoopTables[ti])
           /\ G.node[LoopTables[ti]]["row_count"] = NoneV

-----------------------------------------------------------------------------
(* GraphRepoConverter (src/src/graph/convert_repo.py): the importer of the *)
(* interchange form, a nodes.json and a relationships.json per dataset.    *)

\* props.setdefault(key, value)
SetDefault(props, key, value) == IF key \in DOMAIN props THEN props ELSE (key :> value) @@ props

\* str(old_id)
PyStr(v) == IF IsStr(v) THEN v[2] ELSE StrOf(v)

\* "if table_name and col_name" / "if node_id" / "if start_node and end_node"
\* for a value that is None or a str
IsTruthy(v) == IsStr(v) /\ v[2] # <<>>

\* the node id and the properties convert_single gives one item of nodes.json
ConvertNode(node_item) ==
    LET old_id == node_item.old_id
        labels == node_item.labels
        props == node_item.properties
        node_type == IF labels # <<>> THEN labels[1] ELSE "Unknown"
    IN  IF "Table" \in Range(labels)
        THEN [node_id |-> DictGet(props, "name"),
              props |-> SetDefault(SetDefault(DictUpdate(props, [type |-> StrV("Table")]),
                                              "reference_to", ListV(<<>>)),
                                   "referenced_by", ListV(<<>>))]
        ELSE IF "Column" \in Range(labels)
        THEN [node_id |-> IF IsTruthy(DictGet(props, "belongs_to"))
                                /\ IsTruthy(DictGet(props, "name"))
                          THEN StrV(Qualified(props["belongs_to"][2], props["name"][2]))
                          ELSE StrV(PyStr(old_id)),
              props |-> SetDefault(SetDefault(DictUpdate(props, [type |-> StrV("Column")]),
                                              "referenced_to", ListV(<<>>)),
                                   "referenced_by", ListV(<<>>))]
        ELSE [node_id |-> StrV(PyStr(old_id)),
              props |-> DictUpdate(props, [type |-> StrV(node_type)])]

\* one pass of the node loop: G and old_id_map after the item
AddConverted(state, old_id, converted) ==
    IF IsTruthy(converted.node_id)
    THEN [G |-> NxAddNode(state.G, converted.node_id[2], converted.props),
          old_id_map |-> (old_id :> converted.node_id) @@ state.old_id_map]
    ELSE state

\* the node loop over the first n items
RECURSIVE ProcessNodes(_, _)
ProcessNodes(nodes_data, n) ==
    IF n = 0 THEN [G |-> EmptyGraph, old_id_map |-> EmptyDict]
    ELSE AddConverted(ProcessNodes(nodes_data, n - 1), nodes_data[n].old_id,
                      ConvertNode(nodes_data[n]))

\* a variant of BothResolved that asks for one resolved endpoint only
EitherResolved(start_node, end_node) == IsTruthy(start_node) \/ IsTruthy(end_node)

\* "if start_node and end_node"
BothResolved(start_node, end_node) == IsTruthy(start_node) /\ IsTruthy(end_node)

\* one pass of the relationship loop.  nx add_edge raises ValueError for a
\* node that is None.
AddRelationship(state, rel, start_node, end_node) ==
    IF state.raised # "none" THEN state
    ELSE IF ~BothResolved(start_node, end_node) THEN state
    ELSE IF IsNone(start_node) \/ IsNone(end_node) THEN Raise("ValueError")
    ELSE Return([state.value EXCEPT
                    !.G = NxAddEdge(@, start_node[2], end_node[2],
                                    DictUpdate([type |-> rel.type], rel.properties))])

\* the relationship loop over the first n items
RECURSIVE ProcessRels(_, _, _)
ProcessRels(after_nodes, rels_data, n) ==
    IF n = 0 THEN Return(after_nodes)
    ELSE AddRelationship(ProcessRels(after_nodes, rels_data, n - 1), rels_data[n],
                         DictGet(after_nodes.old_id_map, rels_data[n].start_old_id),
                         DictGet(after_nodes.old_id_map, rels_data[n].end_old_id))

\* convert_single for two readable files: the graph it pickles and the
\* old_id_map it used, or the exception that leaves it
ConvertSingle(nodes_data, rels_data) ==
    ProcessRels(ProcessNodes(nodes_data, Len(nodes_data)), rels_data, Len(rels_data))

-----------------------------------------------------------------------------
(* Specification SpecConvert: one call of convert_single on a nodes.json   *)
(* of at most MaxNodes items and a relationships.json of at most MaxRels.  *)

OldIds == {IntV(1), IntV(2)}

\* the labels and properties of the items: tables with and without a name
\* and with a reference list of their own, columns with and without their
\* table's name, a node of another label, a node without labels
NodeShapes ==
    {[labels |-> <<"Table">>, properties |-> [name |-> StrV(NameA)]],
     [labels |-> <<"Table">>, properties |-> EmptyDict],
     [labels |-> <<"Table">>,
      properties |-> [name |-> StrV(NameB),
                      reference_to |-> ListV(<<StrV(ReferencePath(NameB, NameA, NameA, NameA))>>)]],
     [labels |-> <<"Column">>, properties |-> [name |-> StrV(NameB), belongs_to |-> StrV(NameA)]],
     [labels |-> <<"Column">>, properties |-> [name |-> StrV(NameB)]],
     [labels |-> <<"View">>, properties |-> EmptyDict],
     [labels |-> <<>>, properties |-> EmptyDict]}

NodeItems == {[old_id |-> o] @@ shape : o \in OldIds, shape \in NodeShapes}
NodesData == UNION {[1..n -> NodeItems] : n \in 0..MaxNodes}

\* relationships between old ids, one of which no node carries
RelItems ==
    {[start_old_id |-> s, end_old_id |-> e, type |-> StrV("FOREIGN_KEY"), properties |-> EmptyDict] :
        s \in OldIds \cup {IntV(3)}, e \in OldIds \cup {IntV(3)}}
RelsData == UNION {[1..n -> RelItems] : n \in 0..MaxRels}

ConvertInit ==
    /\ pin \in {[op |-> "convert_single", nodes_data |-> nodes, rels_data |-> rels] :
                   nodes \in NodesData, rels \in RelsData}
    /\ pout = NoCall
    /\ HashIdle /\ LoaderIdle /\ BuildIdle /\ ExplorerIdle

\* convert_single: the graph is built and pickled to the output path
CallConvertSingle ==
    /\ pin.op = "convert_single" /\ pout.op = "none"
    /\ LET call == ConvertSingle(pin.nodes_data, pin.rels_data)
       IN  /\ pout' = [op |-> "convert_single"] @@ call
           /\ disk' = IF call.raised = "none" THEN SaveGraphOp(call.value.G) ELSE disk
    /\ UNCHANGED <<pin, G, calls, pre, nops, loaded, hashVars, buildVars, explorerVars>>

ConvertNext == CallConvertSingle

SpecConvert == ConvertInit /\ [][ConvertNext]_vars

\* the identifier the claim gives an item of nodes.json
HasName(props, key) == key \in DOMAIN props /\ props[key] # StrV(<<>>)
ClaimedId(item) ==
    IF "Table" \in Range(item.labels) /\ HasName(item.properties, "name")
    THEN item.properties["name"]
    ELSE IF "Column" \in Range(item.labels) /\ HasName(item.properties, "name")
                /\ HasName(item.properties, "belongs_to")
    THEN StrV(item.properties["belongs_to"][2] \o <<".">> \o item.properties["name"][2])
    ELSE StrV(PyStr(item.old_id))

\* the items whose old id no later item carries
LastOfOldId(i) ==
    \A j \in DOMAIN pin.nodes_data : j > i => pin.nodes_data[j].old_id # pin.nodes_data[i].old_id

ConvertReturned == pout.op = "convert_single" /\ pout.raised = "none"

\* C21: after convert_single every input node has a new identifier (the table
\* name, '<table>.<column>', or the old identifier when the naming fields
\* are missing), the graph holds a node of that identifier, and the node
\* carries its reference lists (reference_to and referenced_by for a Table,
\* referenced_to and referenced_by for a Column, as GraphLoader names them).
C21_EveryNodeIdentified ==
    ConvertReturned =>
        \A i \in DOMAIN pin.nodes_data :
            LET item == pin.nodes_data[i]
                known == DictGet(pout.value.old_id_map, item.old_id)
            IN  LastOfOldId(i) =>
                   /\ known = ClaimedId(item)
                   /\ HasNode(pout.value.G, known[2])
                   /\ "Table" \in Range(item.labels)
                         => {"reference_to", "referenced_by"}
                               \subseteq DOMAIN pout.value.G.node[known[2]]
                   /\ ("Column" \in Range(item.labels) /\ "Table" \notin Range(item.labels))
                         => {"referenced_to", "referenced_by"}
                               \subseteq DOMAIN pout.value.G.node[known[2]]

\* the pairs of new identifiers of the relationships whose two old ids are
\* both keys of the old_id_map
ResolvedPairs ==
    LET known == pout.value.old_id_map
    IN  {<<known[r.start_old_id][2], known[r.end_old_id][2]>> :
            r \in {r \in Range(pin.rels_data) :
                      r.start_old_id \in DOMAIN known /\ r.end_old_id \in DOMAIN known}}

\* C22: convert_single never raises over a relationship, and the graph it
\* builds has an edge start -> end exactly for the relationships whose start
\* and end old ids were both given a new identifier; the other relationships
\* leave no edge.
C22_UnresolvedEdgesDropped ==
    pout.op = "convert_single" =>
        /\ pout.raised = "none"
        /\ Edges(pout.value.G) = ResolvedPairs

\* C22 witness: a conversion with a relationship one end of which is a node
\* that got an identifier and the other end of which is not, left out of a
\* graph that holds the resolved end
C22_Witness ==
    /\ ConvertReturned
    /\ \E i \in DOMAIN pin.rels_data :
          /\ pin.rels_data[i].start_old_id \in DOMAIN pout.value.old_id_map
          /\ pin.rels_data[i].end_old_id \notin DOMAIN pout.value.old_id_map
    /\ Edges(pout.value.G) = {}

-----------------------------------------------------------------------------
(* Specification SpecBatch: GraphRepoConverter.convert_all over an input   *)
(* root of at most MaxDatasets folders.                                    *)

\* a folder of the input root: the files it holds, whether its nodes.json is
\* JSON, its content, and whether its output directory can be created
Folder(files, readable, nodes_data, rels_data, dir_ok) ==
    [files |-> files, readable |-> readable, nodes_data |-> nodes_data,
     rels_data |-> rels_data, dir_ok |-> dir_ok]

BothFiles == {"nodes.json", "relationships.json"}
TableItem == [old_id |-> IntV(1), labels |-> <<"Table">>, properties |-> [name |-> StrV(NameA)]]
ColumnItem ==
    [old_id |-> IntV(2), labels |-> <<"Column">>,
     properties |-> [name |-> StrV(NameB), belongs_to |-> StrV(NameA)]]
HasColumnItem ==
    [start_old_id |-> IntV(1), end_old_id |-> IntV(2), type |-> StrV("HAS_COLUMN"),
     properties |-> EmptyDict]

Folders ==
    {Folder(BothFiles, TRUE, <<TableItem>>, <<>>, TRUE),
     Folder(BothFiles, TRUE, <<TableItem, ColumnItem>>, <<HasColumnItem>>, TRUE),
     Folder(BothFiles, FALSE, <<>>, <<>>, TRUE),
     Folder(BothFiles, TRUE, <<TableItem>>, <<>>, FALSE),
     Folder({"nodes.json"}, TRUE, <<TableItem>>, <<>>, TRUE)}

BatchInit ==
    /\ pin \in {[op |-> "convert_all", folders |-> folders] :
                   folders \in UNION {[1..n -> Folders] : n \in 0..MaxDatasets}}
    /\ pout = NoCall
    /\ HashIdle /\ LoaderIdle /\ BuildIdle /\ ExplorerIdle

\* convert_single on the files of a folder: json.load raises JSONDecodeError
\* for a nodes.json that is not JSON
ConvertFolder(folder) ==
    IF ~folder.readable THEN Raise("JSONDecodeError")
    ELSE ConvertSingle(folder.nodes_data, folder.rels_data)

batchVars == <<G, calls, pre, nops, disk, loaded, hashVars, buildVars, explorerVars>>

\* os.walk: the folders that hold both files become the tasks
ScanFolders ==
    /\ pin.op = "convert_all" /\ pout.op = "none"
    /\ pout' = [op |-> "convert_all", status |-> "running", i |-> 1,
                tasks |-> SelectSeq(pin.folders, LAMBDA f : BothFiles \subseteq f.files),
                outputs |-> EmptyDict, logged |-> {}]
    /\ UNCHANGED <<pin, batchVars>>

BatchAt == pout.tasks[pout.i]
BatchRunning == pout.op = "convert_all" /\ pout.status = "running"

\* task i: os.makedirs of its output directory raises; the call is outside
\* the try, so the exception leaves convert_all
MakeDirsError ==
    /\ BatchRunning /\ pout.i <= Len(pout.tasks)
    /\ ~BatchAt.dir_ok
    /\ pout' = [pout EXCEPT !.status = "OSError"]
    /\ UNCHANGED <<pin, batchVars>>

\* task i: convert_single returns, its pickle is at the output file
ConvertTask ==
    /\ BatchRunning /\ pout.i <= Len(pout.tasks)
    /\ BatchAt.dir_ok
    /\ ConvertFolder(BatchAt).raised = "none"
    /\ pout' = [pout EXCEPT !.i = @ + 1,
                            !.outputs = (pout.i :> SaveGraphOp(ConvertFolder(BatchAt).value.G)) @@ @]
    /\ UNCHANGED <<pin, batchVars>>

\* task i: convert_single raises, "except Exception" prints and goes on
ConvertTaskError ==
    /\ BatchRunning /\ pout.i <= Len(pout.tasks)
    /\ BatchAt.dir_ok
    /\ ConvertFolder(BatchAt).raised # "none"
    /\ pout' = [pout EXCEPT !.i = @ + 1, !.logged = @ \cup {pout.i}]
    /\ UNCHANGED <<pin, batchVars>>

\* the loop is over
BatchReturn ==
    /\ BatchRunning /\ pout.i > Len(pout.tasks)
    /\ pout' = [pout EXCEPT !.status = "returned"]
    /\ UNCHANGED <<pin, batchVars>>

BatchNext == ScanFolders \/ MakeDirsError \/ ConvertTask \/ ConvertTaskError \/ BatchReturn

SpecBatch == BatchInit /\ [][BatchNext]_vars

BatchEnded == pout.op = "convert_all" /\ pout.status # "running"

\* the tasks whose own conversion does not fail
Sound(k) == pout.tasks[k].dir_ok /\ pout.tasks[k].readable

\* C23: when convert_all has ended, every dataset of the batch whose own
\* conversion does not fail has been converted, whatever the position of a
\* failing one, and convert_all has not raised.
C23_BatchContinues ==
    BatchEnded =>
        /\ pout.status = "returned"
        /\ \A k \in DOMAIN pout.tasks : Sound(k) => k \in DOMAIN pout.outputs

-----------------------------------------------------------------------------
\* The snapshot of a build (SpecBuild)

C25_ExplorerLoadsSnapshot ==
    (runner = "pipeline" /\ q.op = "load_graph") =>
        /\ q.raised = "none"
        /\ XG.held /\ XG.G = G

-----------------------------------------------------------------------------
\* The attribute bundle of the parser's columns (SpecBuild)

\* the keys the docstring of _get_column_samples_and_attributes promises
PromisedKeys == {"null_count", "data_integrity", "sample_count", "is_nullable"}

\* C27: every Column node NetworkXSchemaParser creates carries null_count,
\* data_integrity, sample_count and is_nullable, and key_type when the
\* column is a primary or a foreign key, whether its values were read on the
\* first attempt or by the byte-mode retry.
C27_BundleOnFirstRead ==
    runner = "parser" =>
        \A i \in DOMAIN calls :
            calls[i][1] = "_create_column_node_nx" =>
                LET attrs == G.node[Qualified(calls[i][2], calls[i][3])]
                IN  /\ PromisedKeys \subseteq DOMAIN attrs
                    /\ (IsPrimaryKey(db, calls[i][2], calls[i][3])
                           \/ IsForeignKey(db, calls[i][2], calls[i][3]))
                          => "key_type" \in DOMAIN attrs

-----------------------------------------------------------------------------
\* The graph a pipeline run leaves (SpecBuild)

\* node n is a Table or a Column node with its reference lists
TypedNode(g, n) ==
    \/ /\ NodeTypeIs(g, n, "Table")
       /\ {"reference_to", "referenced_by"} \subseteq DOMAIN g.node[n]
    \/ /\ NodeTypeIs(g, n, "Column")
       /\ {"referenced_to", "referenced_by"} \subseteq DOMAIN g.node[n]

\* every declared foreign key names a table get_all_tables enumerates
TargetsEnumerated == \A i \in DOMAIN DeclaredFks : DeclaredFks[i].table \in Range(GetAllTables(db))

\* C30 as stated: after SchemaPipeline.run every node of the graph is of type
\* Table or Column and carries its reference lists, and every FOREIGN_KEY edge
\* joins two Table nodes, also when a declared foreign key references a table
\* that is not among the enumerated tables.
C30_GraphWellTyped ==
    PipelineDone =>
        /\ \A n \in DOMAIN G.node : TypedNode(G, n)
        /\ \A u \in DOMAIN G.node, v \in DOMAIN G.node :
              FkEdgesBetween(G, u, v) # {} =>
                  NodeTypeIs(G, u, "Table") /\ NodeTypeIs(G, v, "Table")

====
